---- MODULE Spec2Model ----
(***************************************************************************)
(* Model of the event-kit request manager: the RequestQueue (a FIFO        *)
(* counting semaphore with cancellable waiters) and the APIManager request *)
(* life cycle (runWithRetries / runOnce / sendAndProcess / abort).         *)
(*                                                                         *)
(* Specifications:                                                         *)
(*   SpecQ  - the RequestQueue driven directly through its public API;     *)
(*   Spec   - the APIManager driving the queue (FairSpec adds fairness);   *)
(*   SpecH  - Spec with interceptors registered and per-request overrides; *)
(*   SpecI  - the interceptor registry: use(), its disposer, the pipelines;*)
(*   SpecR  - shouldRetry applied to errors drawn from a bounded set;      *)
(*   SpecC  - the cache layer: GETs probing the cache, the requests they   *)
(*            send and the background revalidation of stale entries;       *)
(*   SpecD  - Spec with APIManager.destroy();                              *)
(*   SpecB  - TypedEventBus: middlewares registered in any order, then     *)
(*            emissions through the two middleware chains;                 *)
(*   SpecP  - TypedEventBus: pattern subscriptions made and disposed in    *)
(*            any order, then emissions;                                   *)
(*   SpecT  - TypedEventBus: emissions to handlers some of which throw;    *)
(*   SpecM  - TypedEventBus: one pattern and the events it matches;        *)
(*   SpecO  - TypedEventBus: emissions that overlap behind a deferring     *)
(*            pattern middleware;                                          *)
(*   SpecS  - SpecQ with a listener on the stats stream of the queue;      *)
(*   SpecG  - one request through runOnce under either way of composing    *)
(*            abort signals;                                               *)
(*   SpecK  - Spec with metrics enabled.                                   *)
(***************************************************************************)
EXTENDS Integers, Sequences, FiniteSets, Bags, TLC

(* ---- bounds ---- *)
maxConcurrent == 1        \* RequestQueue capacity (config.concurrentRequests)
NCalls == 3               \* acquire/tryAcquire calls made on the queue (SpecQ)
NReq == 2                 \* requests submitted to the manager (Spec)
maxRetries == 1           \* config.maxRetries used by the model
MaxFaults == 2            \* departures from the plain run the environment
                          \* causes: abort(id) calls, caller signals, timeouts,
                          \* adapter answers other than 200, per-request
                          \* overrides, throwing onError hooks; in SpecQ signal
                          \* firings, clear, close and repeated release() calls
MaxInterceptors == 2      \* interceptors registered at one time
MaxTime == 3              \* Date.now() runs over 0..MaxTime (SpecC)
MaxHits == 2              \* GETs served from the cache while metrics are
                          \* collected (SpecC)
MaxFlights == 2           \* requests inside runWithRetries at one time (SpecC)
MaxMw == 2                \* middlewares registered on the bus, global and
                          \* pattern together (SpecB)
MaxSubs == 3              \* onPattern subscriptions ever made (SpecP)
MaxChars == 3             \* characters of a pattern and of an event name
                          \* (SpecM)
MaxEmits == 2             \* emissions made on the bus (SpecO)

Calls == 1..NCalls

VARIABLES
  activeCount,   \* RequestQueue.activeCount
  waitQueue,     \* RequestQueue.waitQueue: sequence of waiter ids, oldest first
  closed,        \* RequestQueue.closed
  acq,           \* per id: state of its acquire promise / permit
  sig,           \* per id: the AbortSignal handed to acquire()
  relCalls,      \* per id: number of permit.release() calls made
  qRelCount,     \* per id: number of activeCount-- executed through its permit
  handedBy,      \* per id: the permit whose release handed this waiter the permit
                 \* it holds (0: none)
  calls,         \* number of acquire/tryAcquire calls made so far (call order)
  faults         \* number of disturbances the environment has caused so far

qvars == <<activeCount, waitQueue, closed, acq, sig, relCalls, qRelCount, handedBy, calls, faults>>

Requests == 1..NReq

VARIABLES
  pc,          \* per request: where its runWithRetries/runOnce continuation stands
  retryCount,  \* request.retryCount
  pending,     \* APIManager.pending: the PendingItem of the request's current attempt
  ext,         \* request.abortSignal: "none" (not given), "idle", "aborted"
  tmo,         \* the attempt's timeout signal has fired
  outcome,     \* how request() settled: "" while running, "success" or an error code
  log,         \* per request: the events emitted for it ("start", "success",
               \* "error", "canceled", "retry", "end"), interleaved with marks of
               \* what happened to it: "permit", "release" (queue),
               \* "send" (adapter.send called)
  cancelQ,     \* per request: 0, or 1 + the length its log had when it was
               \* canceled (abort(id) or its signal) while waiting in the queue
  abortRets,   \* per request: values returned by the abort(id) calls made so far
  opts,        \* per request: the per-request override it was submitted with
  attempts,    \* per request: the attempt numbers of its retry:attempt events
  endKind,     \* per request: how its last attempt ended, "success" or the
               \* code of the error runOnce threw; "" while an attempt runs
  metrics      \* MetricsCollector.metrics.requests

mvars == <<pc, retryCount, pending, ext, tmo, outcome, log, cancelQ, abortRets,
           opts, attempts, endKind, metrics>>

VARIABLES
  interceptors,  \* APIManager.interceptors: records [id, priority], in list order
  ran,           \* the last pipeline run in SpecI: [kind, list of interceptors
                 \* in the order their hooks were called]
  probe          \* the last shouldRetry(req, err) call made in SpecR

VARIABLES
  config,        \* APIManager.config: [enableMetrics, enableConditionalRequests]
  now,           \* Date.now(), in ticks
  cacheStore,    \* APIManager.cacheStore: per cache key its entry (or NoEntry)
  revalidating,  \* the keys of APIManager.revalidating
  flights,       \* SpecC: the bag of the requests inside runWithRetries
  served,        \* SpecC: what a caller of request() saw last: the outcome
                 \* of its cache probe, or how its network request ended
  hits           \* metrics.cache.hit

cvars == <<config, now, cacheStore, revalidating, flights, served, hits>>

VARIABLES
  middlewares,         \* TypedEventBus.middlewares: the behaviour of each
  patternMiddlewares,  \* TypedEventBus.patternMiddlewares, likewise
  exact,               \* TypedEventBus.exact: per event its handlers, in
                       \* insertion order
  anyHandlers,         \* TypedEventBus.anyHandlers, in insertion order
  patterns,            \* TypedEventBus.patterns
  subs,                \* onPattern subscriptions made so far
  throwers,            \* the handlers that throw when they are called
  emitted              \* the last emitAsync: its event and what ran

bvars == <<middlewares, patternMiddlewares, exact, anyHandlers, patterns,
           subs, throwers, emitted>>
VARIABLES
  listening,     \* RequestQueue.statsListeners holds a listener
  lastStats      \* the snapshot that listener received last

VARIABLES
  anyFn,         \* AbortSignal.any is a function
  attempt        \* SpecG: the request followed through runOnce

VARIABLES
  running,       \* SpecO: the emissions in progress
  invocations    \* SpecO: the pattern entries whose handler was called

svars == <<listening, lastStats>>
gvars == <<anyFn, attempt>>
evars == <<running, invocations>>
tvars == <<gvars, evars>>
yvars == <<interceptors, ran, probe, cvars, bvars, tvars>>
xvars == <<cvars, bvars, svars, gvars, evars>>
ovars == <<interceptors, ran, probe, xvars>>
vars == <<qvars, mvars, ovars>>

Range(s) == {s[i] : i \in 1..Len(s)}

(* ---------------------------------------------------------------------- *)
(* RequestQueue, as pure functions of the queue's fields                   *)
(* ---------------------------------------------------------------------- *)

\* acquire(signal): closed -> reject; signal.aborted -> reject;
\* free slot -> activeCount++ and resolve; otherwise push a waiter.
acquire_leq(active, wq, cl, id, sigAborted) ==
  IF cl THEN [active |-> active, wait |-> wq, res |-> "rejClosed"]
  ELSE IF sigAborted THEN [active |-> active, wait |-> wq, res |-> "rejAbort"]
  ELSE IF active <= maxConcurrent
       THEN [active |-> active + 1, wait |-> wq, res |-> "granted"]
       ELSE [active |-> active, wait |-> Append(wq, id), res |-> "waiting"]

acquire_front(active, wq, cl, id, sigAborted) ==
  IF cl THEN [active |-> active, wait |-> wq, res |-> "rejClosed"]
  ELSE IF sigAborted THEN [active |-> active, wait |-> wq, res |-> "rejAbort"]
  ELSE IF active < maxConcurrent
       THEN [active |-> active + 1, wait |-> wq, res |-> "granted"]
       ELSE [active |-> active, wait |-> <<id>> \o wq, res |-> "waiting"]

acquire(active, wq, cl, id, sigAborted) ==
  IF cl THEN [active |-> active, wait |-> wq, res |-> "rejClosed"]
  ELSE IF sigAborted THEN [active |-> active, wait |-> wq, res |-> "rejAbort"]
  ELSE IF active < maxConcurrent
       THEN [active |-> active + 1, wait |-> wq, res |-> "granted"]
       ELSE [active |-> active, wait |-> Append(wq, id), res |-> "waiting"]

\* tryAcquire(): never enqueues.
tryAcquire(active, cl) ==
  IF cl THEN [active |-> active, ok |-> FALSE]
  ELSE IF active < maxConcurrent THEN [active |-> active + 1, ok |-> TRUE]
  ELSE [active |-> active, ok |-> FALSE]

\* The while loop of release(): shift waiters, skipping those whose signal
\* is already aborted; what is returned starts with the first live waiter.
RECURSIVE skipAborted(_, _)
skipAborted(wq, aborted) ==
  IF wq = <<>> THEN <<>>
  ELSE IF Head(wq) \in aborted THEN skipAborted(Tail(wq), aborted)
  ELSE wq

\* release(): throws when nothing is active; otherwise activeCount--, then
\* the first live waiter (if any) gets activeCount++ and a permit.
\* grant = 0 when no waiter was granted.
release_nogrant(active, wq, aborted) ==
  IF active = 0
  THEN [active |-> 0, wait |-> wq, grant |-> 0, threw |-> TRUE]
  ELSE [active |-> active - 1, wait |-> wq, grant |-> 0, threw |-> FALSE]

release_nodec(active, wq, aborted) ==
  IF active = 0
  THEN [active |-> 0, wait |-> wq, grant |-> 0, threw |-> TRUE]
  ELSE LET rest == skipAborted(wq, aborted) IN
       IF rest = <<>>
       THEN [active |-> active, wait |-> <<>>, grant |-> 0, threw |-> FALSE]
       ELSE [active |-> active, wait |-> Tail(rest),
             grant |-> Head(rest), threw |-> FALSE]

release(active, wq, aborted) ==
  IF active = 0
  THEN [active |-> 0, wait |-> wq, grant |-> 0, threw |-> TRUE]
  ELSE LET rest == skipAborted(wq, aborted) IN
       IF rest = <<>>
       THEN [active |-> active - 1, wait |-> <<>>, grant |-> 0, threw |-> FALSE]
       ELSE [active |-> (active - 1) + 1, wait |-> Tail(rest),
             grant |-> Head(rest), threw |-> FALSE]

\* createPermit(): the permit's release closure, guarded by its `released` flag.
createPermit_nolatch(released, active, wq, aborted) ==
  [released |-> TRUE, ran |-> TRUE, q |-> release(active, wq, aborted)]

createPermit(released, active, wq, aborted) ==
  IF released
  THEN [released |-> TRUE, ran |-> FALSE,
        q |-> [active |-> active, wait |-> wq, grant |-> 0, threw |-> FALSE]]
  ELSE [released |-> TRUE, ran |-> TRUE, q |-> release(active, wq, aborted)]

\* getStats()
getStats(active, wq, cl) ==
  [active |-> active, capacity |-> maxConcurrent, isClosed |-> cl,
   pending |-> Len(wq)]

\* emitStats(), where an operation calls it (called), on the queue as
\* the operation has made it: the listener, if there is one, receives
\* getStats().
emitStats(called, active, wq, cl) ==
  /\ lastStats' = IF called /\ listening THEN getStats(active, wq, cl)
                  ELSE lastStats
  /\ UNCHANGED listening

\* removeEntry(entry): splice the entry out of the wait queue.
removeEntry(wq, id) == SelectSeq(wq, LAMBDA x : x # id)

(* ---------------------------------------------------------------------- *)
(* SpecQ: the RequestQueue driven through its public API                   *)
(* ---------------------------------------------------------------------- *)

\* ids whose signal is aborted (signal.aborted = true)
AbortedSignals == {c \in Calls : sig[c] \in {"fired", "handled"}}

\* waiters a release() run popped: the granted one and the skipped ones
Popped(wq, r) == Range(wq) \ Range(r.wait)

QueueInit ==
  /\ activeCount = 0
  /\ waitQueue = <<>>
  /\ closed = FALSE
  /\ acq = [c \in Calls |-> "none"]
  /\ sig = [c \in Calls |-> "none"]
  /\ relCalls = [c \in Calls |-> 0]
  /\ qRelCount = [c \in Calls |-> 0]
  /\ handedBy = [c \in Calls |-> 0]
  /\ calls = 0
  /\ faults = 0
  /\ listening = FALSE
  /\ lastStats = getStats(0, <<>>, FALSE)

\* acquire(signal?) is call number calls+1; s is the signal it is given:
\* none, a live one, or one that is already aborted.
QAcquire(s) ==
  /\ calls < NCalls
  /\ s = "handled" => faults < MaxFaults
  /\ faults' = faults + (IF s = "handled" THEN 1 ELSE 0)
  /\ LET c == calls + 1
         r == acquire(activeCount, waitQueue, closed, c, s = "handled") IN
     /\ activeCount' = r.active
     /\ waitQueue' = r.wait
     /\ acq' = [acq EXCEPT ![c] = r.res]
     /\ sig' = [sig EXCEPT ![c] = s]
     /\ calls' = c
     /\ emitStats(r.res \in {"granted", "waiting"}, r.active, r.wait, closed)
  /\ UNCHANGED <<closed, relCalls, qRelCount, handedBy, mvars, yvars>>

QTryAcquire ==
  /\ calls < NCalls
  /\ LET c == calls + 1
         r == tryAcquire(activeCount, closed) IN
     /\ activeCount' = r.active
     /\ acq' = [acq EXCEPT ![c] = IF r.ok THEN "granted" ELSE "null"]
     /\ calls' = c
  /\ UNCHANGED <<faults, waitQueue, closed, sig, relCalls, qRelCount, handedBy, mvars, ovars>>

\* permit.release() on the permit of call c (any number of times)
QPermitRelease(c) ==
  /\ acq[c] \in {"granted", "released"}
  /\ acq[c] = "released" => faults < MaxFaults
  /\ faults' = faults + (IF acq[c] = "released" THEN 1 ELSE 0)
  /\ LET p == createPermit(acq[c] = "released", activeCount, waitQueue, AbortedSignals)
         popped == Popped(waitQueue, p.q) IN
     /\ activeCount' = p.q.active
     /\ waitQueue' = p.q.wait
     /\ acq' = [x \in Calls |->
                  IF x = c THEN "released"
                  ELSE IF x = p.q.grant THEN "granted"
                  ELSE IF x \in popped THEN "dropped"
                  ELSE acq[x]]
     /\ qRelCount' = [qRelCount EXCEPT ![c] = @ + (IF p.ran /\ ~p.q.threw THEN 1 ELSE 0)]
     /\ handedBy' = [x \in Calls |-> IF x = p.q.grant THEN c ELSE handedBy[x]]
     /\ emitStats(p.ran /\ ~p.q.threw, p.q.active, p.q.wait, closed)
  /\ relCalls' = [relCalls EXCEPT ![c] = @ + 1]
  /\ UNCHANGED <<closed, sig, calls, mvars, yvars>>

\* The signal of call c aborts: signal.aborted becomes true and the abort
\* event starts to dispatch; the queue's onAbort listener has not run yet.
QSignalFire(c) ==
  /\ sig[c] = "idle"
  /\ faults < MaxFaults
  /\ faults' = faults + 1
  /\ sig' = [sig EXCEPT ![c] = "fired"]
  /\ UNCHANGED <<activeCount, waitQueue, closed, acq, relCalls, qRelCount, handedBy, calls, mvars, ovars>>

\* The dispatch reaches the queue's listener: onAbort runs if it is still
\* attached (the entry is still waiting): removeEntry + reject(AbortWaitError).
QOnAbort(c) ==
  /\ sig[c] = "fired"
  /\ sig' = [sig EXCEPT ![c] = "handled"]
  /\ IF acq[c] = "waiting"
     THEN /\ waitQueue' = removeEntry(waitQueue, c)
          /\ acq' = [acq EXCEPT ![c] = "rejAbort"]
     ELSE UNCHANGED <<waitQueue, acq>>
  /\ emitStats(acq[c] = "waiting", activeCount,
               removeEntry(waitQueue, c), closed)
  /\ UNCHANGED <<faults, activeCount, closed, relCalls, qRelCount, handedBy, calls, mvars, yvars>>

\* clear(reason): reject every waiter
QClear ==
  /\ waitQueue # <<>>
  /\ faults < MaxFaults
  /\ faults' = faults + 1
  /\ waitQueue' = <<>>
  /\ acq' = [x \in Calls |-> IF x \in Range(waitQueue) THEN "rejCleared" ELSE acq[x]]
  /\ UNCHANGED <<activeCount, closed, sig, relCalls, qRelCount, handedBy, calls, mvars, ovars>>

\* close(reason): no-op when closed; otherwise closed = true and reject every waiter
QClose ==
  /\ ~closed
  /\ faults < MaxFaults
  /\ faults' = faults + 1
  /\ closed' = TRUE
  /\ waitQueue' = <<>>
  /\ acq' = [x \in Calls |-> IF x \in Range(waitQueue) THEN "rejClosed" ELSE acq[x]]
  /\ UNCHANGED <<activeCount, sig, relCalls, qRelCount, handedBy, calls, mvars, ovars>>

QNext ==
  \/ \E s \in {"none", "idle", "handled"} : QAcquire(s)
  \/ QTryAcquire
  \/ \E c \in Calls : QPermitRelease(c)
  \/ \E c \in Calls : QSignalFire(c)
  \/ \E c \in Calls : QOnAbort(c)
  \/ QClear
  \/ QClose


(* ---------------------------------------------------------------------- *)
(* Properties of the RequestQueue (checked under SpecQ)                    *)
(* ---------------------------------------------------------------------- *)

\* C4: in every reachable state of the RequestQueue, after any sequence of
\* acquire, tryAcquire, permit release, waiter abort, clear and close,
\* active is between 0 and capacity inclusive.
C4_ActiveWithinCapacity == activeCount \in 0..maxConcurrent

\* the queue is saturated with a waiter behind it, after a permit was released
C4_Witness ==
  /\ activeCount = maxConcurrent
  /\ waitQueue # <<>>
  /\ \E c \in Calls : acq[c] = "released"

\* C5: queue admission is FIFO: no call holds (or held) a permit while an
\* earlier acquire call is still waiting with a signal that has not fired.
C5_Fifo ==
  \A a, b \in Calls :
    (a < b /\ acq[a] = "waiting" /\ a \notin AbortedSignals)
      => acq[b] \notin {"granted", "released"}

\* an earlier waiter was handed its permit while a later one still waits
C5_Witness ==
  \E a, b \in Calls :
    /\ a < b
    /\ handedBy[a] # 0
    /\ acq[b] = "waiting"

\* the waiters of the wait queue whose signal has not fired
LiveWaiters == {w \in Range(waitQueue) : w \notin AbortedSignals}

OldestLive ==
  waitQueue[CHOOSE i \in 1..Len(waitQueue) :
              /\ waitQueue[i] \notin AbortedSignals
              /\ \A j \in 1..(i - 1) : waitQueue[j] \in AbortedSignals]

\* C6: no lost wakeups: a release() that runs while a live waiter is queued
\* grants exactly the oldest live waiter in that same step and leaves
\* active as it was.
C6_NoLostWakeup ==
  [][ ((\E c \in Calls : qRelCount'[c] # qRelCount[c]) /\ LiveWaiters # {})
        => /\ {x \in Calls : acq[x] # "granted" /\ acq'[x] = "granted"} = {OldestLive}
           /\ OldestLive \notin Range(waitQueue')
           /\ activeCount' = activeCount ]_vars

\* a release skipped an aborted waiter and handed the permit to a live one
C6_Witness ==
  /\ \E c \in Calls : acq[c] = "dropped"
  /\ \E w \in Calls : handedBy[w] # 0

\* C7: releasing a permit is idempotent: however many times release() is
\* called on one permit, active is decremented through it exactly once and
\* at most one waiter is granted by it.
C7_PermitReleaseIdempotent ==
  \A c \in Calls :
    /\ qRelCount[c] = (IF relCalls[c] >= 1 THEN 1 ELSE 0)
    /\ Cardinality({w \in Calls : handedBy[w] = c}) <= 1

\* a permit was released twice, granted one waiter, and another still waits
C7_Witness ==
  \E c \in Calls :
    /\ relCalls[c] >= 2
    /\ \E w \in Calls : handedBy[w] = c
    /\ waitQueue # <<>>


(* ---------------------------------------------------------------------- *)
(* APIManager: the life cycle of a request                                 *)
(* ---------------------------------------------------------------------- *)

\* the part of the queue the manager never touches
qhist == <<closed, sig, relCalls, qRelCount, calls>>

NoItem ==
  [present |-> FALSE, startEmitted |-> FALSE, canceledEmitted |-> FALSE,
   abortedBy |-> "", aborted |-> FALSE]

\* the PendingItem registerPending creates; `aborted` is controller.signal.aborted
NewItem ==
  [present |-> TRUE, startEmitted |-> FALSE, canceledEmitted |-> FALSE,
   abortedBy |-> "", aborted |-> FALSE]

\* emitCanceledOnce(item): emits request:canceled unless the latch is set
emitCanceledOnce(it) ==
  IF it.canceledEmitted
  THEN [item |-> it, ev |-> <<>>]
  ELSE [item |-> [it EXCEPT !.canceledEmitted = TRUE], ev |-> <<"canceled">>]

\* markCanceled(item, abortedBy, reason, {abortController, emitIfStarted})
markCanceled(it, by, abortController, emitIfStarted) ==
  IF it.abortedBy # ""
  THEN [item |-> it, ev |-> <<>>]
  ELSE LET it1 == [it EXCEPT !.abortedBy = by,
                             !.aborted = (it.aborted \/ abortController)]
       IN IF emitIfStarted /\ it1.startEmitted
          THEN emitCanceledOnce(it1)
          ELSE [item |-> it1, ev |-> <<>>]

\* abort(requestId): false when nothing is pending under the id
abort(it) ==
  IF ~it.present
  THEN [item |-> it, ev |-> <<>>, ret |-> FALSE]
  ELSE LET m == markCanceled(it, "user", TRUE, TRUE)
           c == IF ~m.item.startEmitted
                THEN emitCanceledOnce(m.item)
                ELSE [item |-> m.item, ev |-> <<>>]
       IN [item |-> c.item, ev |-> m.ev \o c.ev, ret |-> TRUE]

\* registerPending(request, controller): a fresh item; an external signal
\* that is already aborted aborts the controller at once
registerPending(e) ==
  IF e = "aborted"
  THEN markCanceled(NewItem, "external", TRUE, TRUE).item
  ELSE NewItem

\* unregisterPending that leaves the item in the table
unregisterPending_keep(it) == it

\* unregisterPending(requestId): this.pending.delete(requestId)
unregisterPending(it) == NoItem

\* runOnce's catch: the error code the attempt ends with
classify_asis(code, ctrlAborted, extAborted) == code

classify(code, ctrlAborted, extAborted) ==
  IF code # "TIMEOUT" /\ (ctrlAborted \/ extAborted) THEN "CANCELED" ELSE code

\* sendAndProcess's catch: what a failed adapter call is turned into
sendError(out, timedOut, ctrlAborted) ==
  IF timedOut THEN "TIMEOUT"
  ELSE IF ctrlAborted THEN "CANCELED"
  ELSE IF out = "throw" THEN "NETWORK_ERROR"
  ELSE "HTTP_" \o out

RETRY_STATUS_CODES == {408, 429, 500, 502, 503, 504}

\* mutant of shouldRetry: the maxRetries test is dropped
shouldRetry_nomax(err, count, custom) ==
  IF err.code = "CANCELED" THEN FALSE
  ELSE IF custom # "none" THEN custom = "always"
  ELSE IF err.code = "TIMEOUT" THEN TRUE
  ELSE IF err.status # 0 /\ err.status \in RETRY_STATUS_CODES THEN TRUE
  ELSE err.status = 0 /\ err.code = "NETWORK_ERROR"

\* mutant of shouldRetry: the custom predicate is asked first
shouldRetry_customfirst(err, count, custom) ==
  IF custom # "none" THEN custom = "always"
  ELSE IF err.code = "CANCELED" THEN FALSE
  ELSE IF count >= maxRetries THEN FALSE
  ELSE IF err.code = "TIMEOUT" THEN TRUE
  ELSE IF err.status # 0 /\ err.status \in RETRY_STATUS_CODES THEN TRUE
  ELSE err.status = 0 /\ err.code = "NETWORK_ERROR"

\* mutant of shouldRetry: the status of the error is not looked at
shouldRetry_nostatus(err, count, custom) ==
  IF err.code = "CANCELED" THEN FALSE
  ELSE IF custom # "none" THEN custom = "always"
  ELSE IF count >= maxRetries THEN FALSE
  ELSE IF err.code = "TIMEOUT" THEN TRUE
  ELSE err.code = "NETWORK_ERROR"

\* shouldRetry(req, err): err is [code, status] with status 0 for an error
\* that carries none; count is req.retryCount; custom is what
\* req.retryOptions.shouldRetry answers ("none": not given)
shouldRetry(err, count, custom) ==
  IF err.code = "CANCELED" THEN FALSE
  ELSE IF custom # "none" THEN custom = "always"
  ELSE IF count >= maxRetries THEN FALSE
  ELSE IF err.code = "TIMEOUT" THEN TRUE
  ELSE IF err.status # 0 /\ err.status \in RETRY_STATUS_CODES THEN TRUE
  ELSE err.status = 0 /\ err.code = "NETWORK_ERROR"

\* the status an error built by sendAndProcess carries (0: none)
statusOf(code) ==
  CASE code = "HTTP_404" -> 404
    [] code = "HTTP_503" -> 503
    [] OTHER -> 0

\* the error the manager hands to shouldRetry
Err(code) == [code |-> code, status |-> statusOf(code)]

\* the per-request overrides a request may be submitted with
Options == {"plain", "retryAlways", "retryNever", "accept404"}

\* what the request's retryOptions.shouldRetry answers
customOf(o) ==
  IF o = "retryAlways" THEN "always" ELSE IF o = "retryNever" THEN "never" ELSE "none"

\* mutant of validate: every status is accepted
validate_all(o, out) == TRUE

\* request.validateStatus ?? config.validateStatus, applied to the status
validate(o, out) == out = "200" \/ (o = "accept404" /\ out = "404")

(* ---- the interceptor registry ---- *)

Priorities == 0..2
Interceptors == [id : 1..MaxInterceptors, priority : Priorities]

Reverse(s) == [i \in 1..Len(s) |-> s[Len(s) + 1 - i]]

\* Array.prototype.sort under (a, b) => b.priority - a.priority: a stable
\* sort, highest priority first
RECURSIVE insertSorted(_, _)
insertSorted(s, x) ==
  IF s = <<>> THEN <<x>>
  ELSE IF Head(s).priority >= x.priority THEN <<Head(s)>> \o insertSorted(Tail(s), x)
  ELSE <<x>> \o s

RECURSIVE sortByPriority(_)
sortByPriority(s) ==
  IF s = <<>> THEN <<>>
  ELSE insertSorted(sortByPriority(SubSeq(s, 1, Len(s) - 1)), s[Len(s)])

\* use(interceptor): push, then sort
use(ints, x) == sortByPriority(Append(ints, x))

\* the disposer use() returns: splice out the first interceptor with the id
RECURSIVE cleanup(_, _)
cleanup(ints, id) ==
  IF ints = <<>> THEN <<>>
  ELSE IF Head(ints).id = id THEN Tail(ints)
  ELSE <<Head(ints)>> \o cleanup(Tail(ints), id)

\* the interceptors whose onRequest / onResponse hooks run, in call order
applyRequestInterceptors(ints) == ints
applyResponseInterceptors(ints) == ints

\* applyErrorInterceptors: the onError hooks run over the reversed list; the
\* th-th hook called throws (0: none does), which ends the loop
applyErrorInterceptors(ints, th) ==
  [ran |-> SubSeq(Reverse(ints), 1, IF th = 0 THEN Len(ints) ELSE th),
   threw |-> th # 0]

NoRun == [kind |-> "none", list |-> <<>>]
NoProbe == [called |-> FALSE, err |-> [code |-> "", status |-> 0], count |-> 0,
            custom |-> "none", res |-> FALSE]

\* interceptors registered by use() before any request, highest priority first
Registered == [i \in 1..MaxInterceptors |-> [id |-> i, priority |-> MaxInterceptors - i]]

\* n events named ev, one for each hook called
Hooks(n, ev) == [i \in 1..n |-> ev]

Emit(r, evs) == log' = [log EXCEPT ![r] = @ \o evs]

(* ---- the cache layer ---- *)

\* mergeConfigs: the defaults of the two switches the model varies
DefaultConfig == [enableMetrics |-> FALSE, enableConditionalRequests |-> FALSE]
Configs == {DefaultConfig, [enableMetrics |-> TRUE, enableConditionalRequests |-> TRUE]}

\* config.defaultCacheTTL, in ticks
defaultCacheTTL == 2

\* the cache key of the GETs of SpecC (they all fetch the same URL)
Keys == {1}

\* a parsed Cache-Control response header: max-age (-1: absent) and
\* stale-while-revalidate (0: absent), in ticks
NoCC == [maxAge |-> -1, swr |-> 0]
CacheControls == {NoCC, [maxAge |-> 0, swr |-> 2], [maxAge |-> 1, swr |-> 2]}

\* ApiCacheEntry; etag 0 stands for no ETag, cc for entry.headers
NoEntry == [present |-> FALSE, data |-> 0, etag |-> 0, cc |-> NoCC, expires |-> 0,
            staleWhileRevalidate |-> 0, timestamp |-> 0]

\* the statuses the origin answers a GET with
Statuses == {200, 304, 503}

\* the versions of the resource the origin may hold
Versions == {1, 2}

\* the response the adapter resolves with: a 200 carries version v of the
\* body under ETag v; a 304 or an error status carries neither
Answer(st, cc, v) ==
  IF st = 200 THEN [status |-> 200, data |-> v, etag |-> v, cc |-> cc, fromCache |-> FALSE]
  ELSE [status |-> st, data |-> 0, etag |-> 0, cc |-> NoCC, fromCache |-> FALSE]

\* DefaultCacheStrategy.shouldCache for a GET carrying the default headers
shouldCache(res) == res.status >= 200 /\ res.status < 300 /\ res.cc.maxAge # 0

\* shouldCacheResponse for a GET without cacheOptions (enableCache is on)
shouldCacheResponse(res) == shouldCache(res) /\ res.status >= 200 /\ res.status < 300

\* DefaultCacheStrategy.getTTL
getTTL(res) == IF res.cc.maxAge # -1 THEN res.cc.maxAge ELSE defaultCacheTTL

\* mutant of cacheIfNeeded: the entry keeps the body it had
cacheIfNeeded_keepdata(entry, res, t) ==
  IF ~shouldCacheResponse(res) \/ getTTL(res) <= 0 THEN entry
  ELSE [present |-> TRUE, data |-> entry.data, etag |-> res.etag, cc |-> res.cc,
        expires |-> t + getTTL(res), staleWhileRevalidate |-> res.cc.swr,
        timestamp |-> t]

\* cacheIfNeeded(req, res) at time t: the entry the key holds afterwards
cacheIfNeeded(entry, res, t) ==
  IF ~shouldCacheResponse(res) \/ getTTL(res) <= 0 THEN entry
  ELSE [present |-> TRUE, data |-> res.data, etag |-> res.etag, cc |-> res.cc,
        expires |-> t + getTTL(res), staleWhileRevalidate |-> res.cc.swr,
        timestamp |-> t]

\* DefaultCacheStrategy.shouldInvalidate
shouldInvalidate(entry, t) == t >= entry.expires + entry.staleWhileRevalidate

\* isEntryStale
isEntryStale(entry, t) ==
  t > entry.expires /\ t <= entry.expires + entry.staleWhileRevalidate

\* DefaultCacheStrategy.shouldRevalidate
shouldRevalidate(entry, t) ==
  /\ entry.staleWhileRevalidate # 0
  /\ t >= entry.expires
  /\ t < entry.expires + entry.staleWhileRevalidate

\* createCachedResponse
createCachedResponse(entry) ==
  [status |-> 200, data |-> entry.data, etag |-> entry.etag, cc |-> entry.cc,
   fromCache |-> TRUE]

\* tryServeFromCache for a GET without cacheOptions at time t: what it finds
\* ("miss": no entry; "expired": entry removed and reported as a miss;
\* "stale": served with the cache:stale events; "hit": served as fresh) and
\* whether it calls ensureRevalidate
tryServeFromCache(entry, t) ==
  IF ~entry.present THEN [kind |-> "miss", revalidate |-> FALSE]
  ELSE IF shouldInvalidate(entry, t) THEN [kind |-> "expired", revalidate |-> FALSE]
  ELSE IF isEntryStale(entry, t)
       THEN [kind |-> "stale", revalidate |-> shouldRevalidate(entry, t)]
  ELSE [kind |-> "hit", revalidate |-> FALSE]

\* MetricsCollector.cacheHit
cacheHit(cfg, n) == IF cfg.enableMetrics THEN n + 1 ELSE n

\* mutant of ensureRevalidate: the revalidating map is not consulted
ensureRevalidate_nodedup(rv, k) == TRUE

\* ensureRevalidate(key, request): whether it starts a revalidation request
ensureRevalidate(rv, k) == k \notin rv

\* applyConditionalHeadersIfNeeded for a GET: the If-None-Match header the
\* request carries afterwards (0: none), inm being what it carried before
applyConditionalHeadersIfNeeded(cfg, reval, entry, inm) ==
  IF cfg.enableConditionalRequests /\ reval /\ entry.present /\ entry.etag # 0
  THEN entry.etag ELSE inm

\* sendAndProcess after the adapter resolved with raw: the response it
\* returns, or the error it throws
sendAndProcess(cfg, entry, raw) ==
  IF raw.status = 304 /\ cfg.enableConditionalRequests /\ entry.present
  THEN [ok |-> TRUE,
        res |-> [status |-> 200, data |-> entry.data,
                 etag |-> IF raw.etag # 0 THEN raw.etag ELSE entry.etag,
                 cc |-> IF raw.cc # NoCC THEN raw.cc ELSE entry.cc,
                 fromCache |-> TRUE],
        err |-> [code |-> "", status |-> 0]]
  ELSE IF raw.status >= 200 /\ raw.status < 300
       THEN [ok |-> TRUE, res |-> raw, err |-> [code |-> "", status |-> 0]]
  ELSE [ok |-> FALSE, res |-> raw, err |-> [code |-> "HTTP", status |-> raw.status]]

\* a request inside runWithRetries: where it stands, its cache key,
\* metadata.isRevalidate, retryCount, its If-None-Match header (0: none) and
\* the number of request:end events emitted for it
NewFlight(k, rv) == [phase |-> "queued", key |-> k, reval |-> rv, retryCount |-> 0,
                     inm |-> 0, ends |-> 0]

\* what a caller of request() saw: kind is the outcome of tryServeFromCache
\* ("miss", "expired", "stale", "hit") or of the network request
\* ("network": a response, "failed": an error); data and fromCache are those
\* of the response; started tells whether the call started a request,
\* wanted whether tryServeFromCache called ensureRevalidate
NoServed == [kind |-> "none", data |-> 0, fromCache |-> FALSE, started |-> FALSE,
             wanted |-> FALSE]

CacheInit ==
  /\ now = 0
  /\ cacheStore = [k \in Keys |-> NoEntry]
  /\ revalidating = {}
  /\ flights = EmptyBag
  /\ served = NoServed
  /\ hits = 0

(***************************************************************************)
(* TypedEventBus.                                                          *)
(*                                                                         *)
(* An event name and a pattern are strings, written as the sequences of   *)
(* their characters: "a:x" is <<"a", ":", "x">>.  A handler is known by    *)
(* the number of its subscription; the handlers in throwers throw when     *)
(* they are called.  A middleware is known by what it does with ctx and    *)
(* next:                                                                   *)
(*   "pass"      - await next();                                           *)
(*   "block"     - ctx.blocked = true; next is not called;                 *)
(*   "blockNext" - ctx.blocked = true; await next();                       *)
(*   "twice"     - await next(); await next().                             *)
(* Every middleware awaits the promise next() returns, so an error thrown  *)
(* downstream leaves it at that await.  What an emission did is recorded   *)
(* as a trace of marks: a middleware's "before" and "after" (around its    *)
(* use of next), its "block" when it sets ctx.blocked, a handler's "call", *)
(* the "throw" of an error rethrown on a later microtask, and the          *)
(* "resolve" or "reject" of the promise emitAsync returns.                 *)
(***************************************************************************)
Events == {<<"a">>, <<"a", ":", "x">>, <<"a", "b">>}
MwKinds == {"pass", "block", "blockNext", "twice"}
Patterns == {<<"*">>, <<"a", ":", "*">>}
PatternPriorities == {0, 1}

\* The strings of at most n characters
Chars == {"a", ":", "*"}
Strings(n) == UNION {[1..k -> Chars] : k \in 0..n}

startsWith(s, prefix) ==
  Len(s) >= Len(prefix) /\ SubSeq(s, 1, Len(prefix)) = prefix
endsWith(s, suffix) ==
  /\ Len(s) >= Len(suffix)
  /\ SubSeq(s, Len(s) - Len(suffix) + 1, Len(s)) = suffix

\* parsePattern; kind "invalid" stands for either of its two errors
parsePattern(p) ==
  IF p = <<"*">> THEN [kind |-> "star", prefix |-> <<>>]
  ELSE IF endsWith(p, <<":", "*">>)
    THEN LET prefix == SubSeq(p, 1, Len(p) - 2)
         IN  IF prefix = <<>> THEN [kind |-> "invalid", prefix |-> <<>>]
             ELSE [kind |-> "prefix", prefix |-> prefix]
  ELSE [kind |-> "invalid", prefix |-> <<>>]

\* The entry onPattern builds for subscription id
PatternEntry(id, pattern, priority, once) ==
  [id |-> id, kind |-> parsePattern(pattern).kind,
   prefix |-> parsePattern(pattern).prefix, pattern |-> pattern,
   priority |-> priority, once |-> once]

Mark(tag, chain, id) == [tag |-> tag, chain |-> chain, id |-> id]

NoEmission ==
  [event |-> <<>>, trace |-> <<>>, blocked |-> FALSE, failed |-> FALSE,
   done |-> FALSE]

BusInit ==
  /\ middlewares = <<>>
  /\ patternMiddlewares = <<>>
  /\ exact = [e \in Events |-> <<>>]
  /\ anyHandlers = <<>>
  /\ patterns = <<>>
  /\ subs = 0
  /\ throwers = {}
  /\ emitted = NoEmission

\* matchPattern with the prefix taken without its colon
matchPattern_nocolon(entry, event) ==
  \/ entry.kind = "star"
  \/ event = entry.prefix
  \/ startsWith(event, entry.prefix)

\* event === entry.prefix || event.startsWith(entry.prefixWithColon)
matchPattern(entry, event) ==
  \/ entry.kind = "star"
  \/ event = entry.prefix
  \/ startsWith(event, entry.prefix \o <<":">>)

\* The binary search of insertPatternSorted over list[lo+1 .. hi], with the
\* comparison written with > in place of >=.
RECURSIVE search_gt(_, _, _, _)
search_gt(list, entry, lo, hi) ==
  IF lo < hi
    THEN LET mid == (lo + hi) \div 2
         IN  IF list[mid + 1].priority > entry.priority
               THEN search_gt(list, entry, mid + 1, hi)
               ELSE search_gt(list, entry, lo, mid)
    ELSE lo

RECURSIVE search(_, _, _, _)
search(list, entry, lo, hi) ==
  IF lo < hi
    THEN LET mid == (lo + hi) \div 2
         IN  IF list[mid + 1].priority >= entry.priority
               THEN search(list, entry, mid + 1, hi)
               ELSE search(list, entry, lo, mid)
    ELSE lo

\* list.splice(at, 0, entry), at counted from 0
spliceIn(list, at, entry) ==
  SubSeq(list, 1, at) \o <<entry>> \o SubSeq(list, at + 1, Len(list))

insertPatternSorted_gt(list, entry) ==
  spliceIn(list, search_gt(list, entry, 0, Len(list)), entry)

insertPatternSorted(list, entry) ==
  spliceIn(list, search(list, entry, 0, Len(list)), entry)

\* const idx = list.indexOf(entry); if (idx >= 0) list.splice(idx, 1)
removePattern(list, id) == SelectSeq(list, LAMBDA e : e.id # id)

\* this.middlewares[n], this.patternMiddlewares[n]
mwAt(chain, n) == chain[n + 1]

\* One loop of callHandlers: each handler is called inside try/catch, and
\* what it throws is rethrown on a later microtask.
RECURSIVE callAll(_, _, _)
callAll(trace, chain, ids) ==
  IF ids = <<>> THEN trace
  ELSE LET called == Append(trace, Mark("call", chain, Head(ids)))
       IN  callAll(IF <<chain, Head(ids)>> \in throwers
                     THEN Append(called, Mark("throw", chain, Head(ids)))
                     ELSE called,
                   chain, Tail(ids))

\* callHandlers: the exact handlers of the event (this.exact.get(event), if
\* there is such a set), then the any-handlers
callHandlers(st) ==
  [st EXCEPT !.trace =
     callAll(callAll(@, "exact",
                     IF st.event \in DOMAIN exact THEN exact[st.event]
                     ELSE <<>>),
             "any", anyHandlers)]

\* The loop over matched at the end of the pattern chain: each entry's
\* handler is called, and an entry subscribed with once is then removed.
\* The call is not inside a try: what the handler throws leaves the loop.
RECURSIVE callMatched(_, _)
callMatched(st, matched) ==
  IF matched = <<>> THEN st
  ELSE LET entry == Head(matched)
           called == [st EXCEPT !.trace =
                        Append(@, Mark("call", "pattern", entry.id))]
       IN  IF <<"pattern", entry.id>> \in throwers
             THEN [called EXCEPT !.failed = TRUE]
             ELSE callMatched(IF entry.once
                                THEN [called EXCEPT
                                        !.patterns = removePattern(@, entry.id)]
                                ELSE called,
                              Tail(matched))

RECURSIVE dispatch(_, _)
RECURSIVE patternDispatch(_, _)
RECURSIVE runMw(_, _, _)

\* next as the middleware at index n of a chain receives it
callNext(chain, n, st) ==
  IF chain = "g" THEN dispatch(n + 1, st) ELSE patternDispatch(n + 1, st)

\* A middleware that passes on without awaiting what next() returns: it
\* is over before anything downstream has run.
runMw_noawait(chain, n, st) ==
  callNext(chain, n,
    [st EXCEPT !.trace = @ \o <<Mark("before", chain, n + 1),
                                 Mark("after", chain, n + 1)>>])

\* One middleware, at index n of its chain ("g" for middlewares, "p" for
\* patternMiddlewares), run on the emission st.
runMw(chain, n, st) ==
  LET kind == mwAt(IF chain = "g" THEN middlewares ELSE patternMiddlewares, n)
      before == [st EXCEPT !.trace = Append(@, Mark("before", chain, n + 1))]
      after(s) == IF s.failed THEN s
                  ELSE [s EXCEPT !.trace = Append(@, Mark("after", chain, n + 1))]
      blocked == [before EXCEPT !.blocked = TRUE,
                                !.trace = Append(@, Mark("block", chain, n + 1))]
  IN  CASE kind = "pass" -> after(callNext(chain, n, before))
        [] kind = "block" -> after(blocked)
        [] kind = "blockNext" -> after(callNext(chain, n, blocked))
        [] kind = "twice" ->
             LET first == callNext(chain, n, before)
             IN  IF first.failed THEN first
                 ELSE after(callNext(chain, n, first))

\* dispatch of callPatternHandlers
patternDispatch(n, st) ==
  IF n <= st.pi THEN [st EXCEPT !.failed = TRUE]
  ELSE LET s == [st EXCEPT !.pi = n]
       IN  IF n >= Len(patternMiddlewares)
             THEN callMatched(s, s.matched)
             ELSE runMw("p", n, s)

callPatternHandlers(st) ==
  patternDispatch(0,
    [st EXCEPT !.matched = SelectSeq(st.patterns,
                                     LAMBDA p : matchPattern(p, st.event)),
               !.pi = -1])

\* dispatch of runMiddlewares
dispatch(n, st) ==
  IF st.blocked THEN st
  ELSE IF n <= st.i THEN [st EXCEPT !.failed = TRUE]
  ELSE LET s == [st EXCEPT !.i = n]
       IN  IF n >= Len(middlewares)
             THEN callPatternHandlers(callHandlers(s))
             ELSE runMw("g", n, s)

runMiddlewares(event) ==
  dispatch(0, [event |-> event, trace |-> <<>>, blocked |-> FALSE,
               failed |-> FALSE, i |-> -1, pi |-> -1, matched |-> <<>>,
               patterns |-> patterns])

\* emitAsync: await this.runMiddlewares(ctx)
emitAsync(event) ==
  LET st == runMiddlewares(event)
  IN  [st EXCEPT !.trace =
         Append(@, Mark(IF st.failed THEN "reject" ELSE "resolve", "g", 0))]

(***************************************************************************)
(* The errors the RequestQueue rejects an acquire with.                    *)
(***************************************************************************)
\* new AbortWaitError(): name 'AbortError', code 'CANCELED'
AbortWaitError == [name |-> "AbortError", code |-> "CANCELED"]
\* new QueueClosedError(message): code 'QUEUE_CLOSED' unless opts.code
QueueClosedError == [name |-> "QueueClosedError", code |-> "QUEUE_CLOSED"]

\* The error behind a rejected acquire
rejection(res) ==
  CASE res = "rejAbort" -> AbortWaitError
    [] res \in {"rejClosed", "rejCleared"} -> QueueClosedError
    [] OTHER -> [name |-> "", code |-> ""]

(***************************************************************************)
(* combineSignalsWithCleanup.  A signal is "none" (undefined), "idle" or   *)
(* "aborted"; a composition is known by the states at of its sources when *)
(* it was made, and its signal is read against their states cur.           *)
(***************************************************************************)
SignalStates == {"none", "idle", "aborted"}

\* signals.filter(Boolean)
valid(at) == {i \in 1..Len(at) : at[i] # "none"}

\* signal.aborted of the signal combineSignalsWithCleanup returned (FALSE
\* when it returned none): the one valid source itself; AbortSignal.any of
\* the sources where that is a function (any); otherwise a fresh controller
\* that aborts when a source dispatches its abort event, which a source
\* already aborted never does.
combined(any, at, cur) ==
  IF Cardinality(valid(at)) <= 1 \/ any
    THEN \E i \in valid(at) : cur[i] = "aborted"
    ELSE \E i \in valid(at) : at[i] = "idle" /\ cur[i] = "aborted"

\* One request followed through runOnce: the caller's signal ext, the
\* attempt's controller ctrl and timeout signal tmo, the sources of the
\* queue signal and of the adapter's signal as they were composed
\* (<<>>: not composed yet), and how request() settled.
NoAttempt ==
  [pc |-> "idle", ext |-> "none", ctrl |-> "idle", tmo |-> "idle",
   queueAt |-> <<>>, sendAt |-> <<>>, submitted |-> "none", outcome |-> ""]

SignalInit ==
  /\ anyFn = TRUE
  /\ attempt = NoAttempt


(***************************************************************************)
(* Emissions in progress.  A pattern middleware of kind "defer" awaits     *)
(* something else before it awaits next(): the emission that runs it is    *)
(* suspended there, after callPatternHandlers has computed matched, and    *)
(* other calls on the bus run before it goes on.                           *)
(***************************************************************************)
Emissions == 1..MaxEmits

NoRunning == [phase |-> "idle", event |-> <<>>, matched |-> <<>>]

EmitInit ==
  /\ running = [e \in Emissions |-> NoRunning]
  /\ invocations = <<>>

\* const matched = []; for (const p of this.patterns) if (matchPattern) push
matchedOf(list, event) == SelectSeq(list, LAMBDA p : matchPattern(p, event))

\* The loop over matched run on the patterns as they are now: the patterns
\* it leaves, and the entries whose handler it called, in order.
handleMatched(list, matched) ==
  LET st == callMatched([trace |-> <<>>, patterns |-> list, failed |-> FALSE],
                        matched)
  IN  [patterns |-> st.patterns, called |-> SubSeq(matched, 1, Len(st.trace))]

(* ---- MetricsCollector: metrics.requests ---- *)

NoMetrics == [active |-> 0, total |-> 0, success |-> 0, error |-> 0, timeout |-> 0]

\* requestStart()
requestStart(cfg, m) ==
  IF ~cfg.enableMetrics THEN m
  ELSE [m EXCEPT !.total = @ + 1, !.active = @ + 1]

\* the switch of requestEnd(reason): the counter of the reason
countReason(m, reason) ==
  CASE reason = "canceled" -> m
    [] reason = "error" -> [m EXCEPT !.error = @ + 1]
    [] reason = "success" -> [m EXCEPT !.success = @ + 1]
    [] reason = "timeout" -> [m EXCEPT !.timeout = @ + 1]

\* requestEnd(reason): active = Math.max(0, active - 1), then the counter
\* of the reason
requestEnd(cfg, m, reason) ==
  IF ~cfg.enableMetrics THEN m
  ELSE countReason([m EXCEPT !.active = IF @ > 0 THEN @ - 1 ELSE 0], reason)

\* endReason as runOnce's catch sets it from the code of the error
endReason(code) ==
  CASE code = "CANCELED" -> "canceled"
    [] code = "TIMEOUT" -> "timeout"
    [] OTHER -> "error"
ManagerInit ==
  /\ pc = [r \in Requests |-> "idle"]
  /\ retryCount = [r \in Requests |-> 0]
  /\ pending = [r \in Requests |-> NoItem]
  /\ ext = [r \in Requests |-> "none"]
  /\ tmo = [r \in Requests |-> FALSE]
  /\ outcome = [r \in Requests |-> ""]
  /\ log = [r \in Requests |-> <<>>]
  /\ cancelQ = [r \in Requests |-> 0]
  /\ abortRets = [r \in Requests |-> <<>>]
  /\ opts = [r \in Requests |-> "plain"]
  /\ attempts = [r \in Requests |-> <<>>]
  /\ endKind = [r \in Requests |-> ""]
  /\ metrics = NoMetrics

Init ==
  /\ QueueInit
  /\ ManagerInit
  /\ interceptors = <<>>
  /\ ran = NoRun
  /\ probe = NoProbe
  /\ config = DefaultConfig
  /\ CacheInit
  /\ BusInit
  /\ SignalInit
  /\ EmitInit

\* the manager after use() has registered the interceptors of Registered
InitH ==
  /\ QueueInit
  /\ ManagerInit
  /\ interceptors = Registered
  /\ ran = NoRun
  /\ probe = NoProbe
  /\ config = DefaultConfig
  /\ CacheInit
  /\ BusInit
  /\ SignalInit
  /\ EmitInit

\* The first synchronous part of runOnce: registerPending, compose the
\* queue signal (external signal, controller.signal), queue.acquire(signal).
StartAttempt(r, e, pre) ==
  LET it == registerPending(e)
      a == acquire(activeCount, waitQueue, closed, r, it.aborted \/ e = "aborted")
  IN /\ pending' = [pending EXCEPT ![r] = it]
     /\ activeCount' = a.active
     /\ waitQueue' = a.wait
     /\ acq' = [acq EXCEPT ![r] = a.res]
     /\ Emit(r, pre \o (IF a.res = "granted" THEN <<"permit">> ELSE <<>>))
     /\ pc' = [pc EXCEPT ![r] = "acquiring"]
     /\ endKind' = [endKind EXCEPT ![r] = ""]

\* request(reqInit) with a request the cache does not serve, given the
\* external signal e and the override o: prepareRequest runs the onRequest
\* hooks, then runWithRetries starts; requests are submitted in id order.
Request(r, e, o) ==
  LET cost == (IF e # "none" THEN 1 ELSE 0) + (IF o # "plain" THEN 1 ELSE 0)
  IN /\ pc[r] = "idle"
     /\ \A q \in Requests : q < r => pc[q] # "idle"
     /\ faults + cost <= MaxFaults
     /\ faults' = faults + cost
     /\ ext' = [ext EXCEPT ![r] = e]
     /\ opts' = [opts EXCEPT ![r] = o]
     /\ StartAttempt(r, e, Hooks(Len(applyRequestInterceptors(interceptors)), "onRequest"))
     /\ UNCHANGED <<retryCount, tmo, outcome, abortRets, cancelQ, handedBy, qhist, ovars>>
     /\ UNCHANGED attempts
     /\ metrics' = requestStart(config, metrics)

\* runOnce after the permit was granted: latch startEmitted, emit
\* request:start, and sendAndProcess up to the adapter call.
AfterAcquire(r) ==
  /\ pc[r] = "acquiring"
  /\ acq[r] = "granted"
  /\ pending' = [pending EXCEPT ![r] =
                   IF @.present THEN [@ EXCEPT !.startEmitted = TRUE] ELSE @]
  /\ Emit(r, <<"start", "send">>)
  /\ tmo' = [tmo EXCEPT ![r] = FALSE]
  /\ pc' = [pc EXCEPT ![r] = "sending"]
  /\ UNCHANGED <<activeCount, waitQueue, acq, retryCount, ext, outcome, abortRets, cancelQ, handedBy, faults, qhist, ovars>>
  /\ UNCHANGED <<opts, attempts, endKind, metrics>>

\* requests whose queue signal (external signal, controller.signal) is aborted
QueueSignalAborted == {x \in Requests : pending[x].aborted \/ ext[x] = "aborted"}

\* runOnce's finally block, inside a step of request r: release the permit
\* (if one was obtained), unregisterPending, emit request:end.  evs are the
\* events the step emitted before the block and after the events it emits
\* after it; the queue may hand the permit to a waiter.
Finally(r, evs, after) ==
  LET held == acq[r] = "granted"
      q == IF held
           THEN createPermit(FALSE, activeCount, waitQueue, QueueSignalAborted).q
           ELSE [active |-> activeCount, wait |-> waitQueue, grant |-> 0, threw |-> FALSE]
  IN /\ activeCount' = q.active
     /\ waitQueue' = q.wait
     /\ acq' = [x \in Calls |->
                  IF x = r THEN (IF held THEN "released" ELSE acq[r])
                  ELSE IF x = q.grant THEN "granted"
                  ELSE acq[x]]
     /\ handedBy' = [x \in Calls |->
                       IF x = r THEN 0 ELSE IF x = q.grant THEN r ELSE handedBy[x]]
     /\ pending' = [pending EXCEPT ![r] = unregisterPending(@)]
     /\ log' = [x \in Requests |->
                  IF x = r THEN log[r] \o evs
                                 \o (IF held THEN <<"release">> ELSE <<>>)
                                 \o <<"end">> \o after
                  ELSE IF x = q.grant THEN Append(log[x], "permit")
                  ELSE log[x]]

\* runOnce's catch and finally, then runWithRetries' catch: classify the
\* error; emit request:canceled, or run the onError hooks (the th-th of them
\* throws, 0: none) and emit response:error; finalize; then either schedule
\* a retry (retry:attempt, then sleep) or reject request().  pre are the
\* events the attempt emitted before it failed.
FailAttempt(r, raw, th, pre) ==
  LET it == pending[r]
      code == classify(raw, it.aborted, ext[r] = "aborted")
      h == applyErrorInterceptors(interceptors, th)
      final == IF code # "CANCELED" /\ h.threw THEN "THROWN" ELSE code
      evs == IF code = "CANCELED" THEN emitCanceledOnce(it).ev
             ELSE Hooks(Len(h.ran), "onError")
                    \o (IF h.threw THEN <<>> ELSE <<"error">>)
      again == shouldRetry(Err(final), retryCount[r], customOf(opts[r]))
  IN /\ th <= Len(interceptors)
     /\ th # 0 => code # "CANCELED"
     /\ Finally(r, pre \o evs, IF again THEN <<"retry">> ELSE <<>>)
     /\ endKind' = [endKind EXCEPT ![r] = final]
     /\ metrics' = requestEnd(config, metrics, endReason(code))
     /\ IF again
        THEN /\ retryCount' = [retryCount EXCEPT ![r] = @ + 1]
             /\ attempts' = [attempts EXCEPT ![r] = Append(@, retryCount[r] + 1)]
             /\ pc' = [pc EXCEPT ![r] = "sleeping"]
             /\ UNCHANGED outcome
        ELSE /\ pc' = [pc EXCEPT ![r] = "done"]
             /\ outcome' = [outcome EXCEPT ![r] = final]
             /\ UNCHANGED <<retryCount, attempts>>

\* the acquire promise was rejected (AbortWaitError: not an ApiError)
AcquireFailed(r) ==
  /\ pc[r] = "acquiring"
  /\ acq[r] \in {"rejAbort", "rejClosed"}
  /\ FailAttempt(r, "NETWORK_ERROR", 0, <<>>)
  /\ UNCHANGED <<ext, tmo, abortRets, cancelQ, faults, opts, qhist, ovars>>

\* the attempt's timeout signal fires while the adapter call is in flight
TimeoutFire(r) ==
  /\ pc[r] = "sending"
  /\ ~tmo[r]
  /\ faults < MaxFaults
  /\ tmo' = [tmo EXCEPT ![r] = TRUE]
  /\ faults' = faults + 1
  /\ UNCHANGED <<activeCount, waitQueue, acq, handedBy, qhist, ovars>>
  /\ UNCHANGED <<pc, retryCount, pending, ext, outcome, log, cancelQ, abortRets>>
  /\ UNCHANGED <<opts, attempts, endKind, metrics>>

AdapterOutcomes == {"200", "503", "404", "throw"}

\* adapter.send settles: a response with a status, or a thrown error.  The
\* rest of sendAndProcess (onResponse hooks, validateStatus, its catch) and
\* of runOnce's try block (or catch, whose th-th onError hook throws) follows.
AdapterSettle(r, out, th) ==
  LET ok == out # "throw" /\ validate(opts[r], out)
      cost == (IF out # "200" THEN 1 ELSE 0) + (IF th # 0 THEN 1 ELSE 0)
      pre == IF out = "throw" THEN <<>>
             ELSE Hooks(Len(applyResponseInterceptors(interceptors)), "onResponse")
  IN /\ pc[r] = "sending"
     /\ faults + cost <= MaxFaults
     /\ faults' = faults + cost
     /\ IF ok
        THEN /\ th = 0
             /\ Emit(r, pre \o <<"success">>)
             /\ pc' = [pc EXCEPT ![r] = "succeeded"]
             /\ UNCHANGED <<activeCount, waitQueue, acq, handedBy, pending, retryCount,
                            outcome, attempts, endKind, metrics>>
        ELSE FailAttempt(r, sendError(out, tmo[r], pending[r].aborted), th, pre)
     /\ UNCHANGED <<ext, tmo, abortRets, cancelQ, opts, qhist, ovars>>

\* runOnce returns the response after cacheIfNeeded: the finally block
Finalize(r) ==
  /\ pc[r] = "succeeded"
  /\ Finally(r, <<>>, <<>>)
  /\ pc' = [pc EXCEPT ![r] = "done"]
  /\ outcome' = [outcome EXCEPT ![r] = "success"]
  /\ endKind' = [endKind EXCEPT ![r] = "success"]
  /\ UNCHANGED metrics   \* endReason is still null: no requestEnd
  /\ UNCHANGED <<retryCount, ext, tmo, abortRets, cancelQ, faults, opts, attempts, qhist, ovars>>

\* the retry sleep ends: runWithRetries loops into runOnce again
Wake(r) ==
  /\ pc[r] = "sleeping"
  /\ StartAttempt(r, ext[r], <<>>)
  /\ UNCHANGED <<retryCount, ext, tmo, outcome, abortRets, cancelQ, handedBy, faults, qhist, ovars>>
  /\ UNCHANGED <<opts, attempts, metrics>>

\* controller.abort() reaches the queue's onAbort listener of a waiting
\* acquire: removeEntry + reject(AbortWaitError)
ControllerAborts(r, fires) ==
  IF fires /\ acq[r] = "waiting"
  THEN /\ waitQueue' = removeEntry(waitQueue, r)
       /\ acq' = [acq EXCEPT ![r] = "rejAbort"]
       /\ cancelQ' = [cancelQ EXCEPT ![r] = 1 + Len(log[r])]
  ELSE UNCHANGED <<waitQueue, acq, cancelQ>>

\* abort(requestId) called by the user
Abort(r) ==
  /\ pc[r] # "idle"
  /\ faults < MaxFaults
  /\ faults' = faults + 1
  /\ LET a == abort(pending[r]) IN
     /\ pending' = [pending EXCEPT ![r] = a.item]
     /\ Emit(r, a.ev)
     /\ abortRets' = [abortRets EXCEPT ![r] = Append(@, a.ret)]
     /\ ControllerAborts(r, a.item.aborted /\ ~pending[r].aborted)
  /\ UNCHANGED <<activeCount, pc, retryCount, ext, tmo, outcome, handedBy, qhist, ovars>>
  /\ UNCHANGED <<opts, attempts, endKind, metrics>>

\* the caller's signal aborts; the externalAbort listener is bound while
\* the request has a pending item
ExternalAbort(r) ==
  /\ pc[r] \notin {"idle", "done"}
  /\ ext[r] = "idle"
  /\ ext' = [ext EXCEPT ![r] = "aborted"]
  /\ LET m == IF pending[r].present
              THEN markCanceled(pending[r], "external", TRUE, TRUE)
              ELSE [item |-> pending[r], ev |-> <<>>] IN
     /\ pending' = [pending EXCEPT ![r] = m.item]
     /\ Emit(r, m.ev)
     /\ ControllerAborts(r, m.item.aborted /\ ~pending[r].aborted)
  /\ UNCHANGED <<activeCount, pc, retryCount, tmo, outcome, abortRets, handedBy, faults, qhist, ovars>>
  /\ UNCHANGED <<opts, attempts, endKind, metrics>>

\* what the manager and its environment do with the requests submitted
Steps ==
  \/ \E r \in Requests : AfterAcquire(r)
  \/ \E r \in Requests : AcquireFailed(r)
  \/ \E r \in Requests : TimeoutFire(r)
  \/ \E r \in Requests, out \in AdapterOutcomes, th \in 0..MaxInterceptors :
       AdapterSettle(r, out, th)
  \/ \E r \in Requests : Finalize(r)
  \/ \E r \in Requests : Wake(r)
  \/ \E r \in Requests : Abort(r)
  \/ \E r \in Requests : ExternalAbort(r)

\* requests submitted without per-request overrides
Next ==
  \/ \E r \in Requests, e \in {"none", "idle", "aborted"} : Request(r, e, "plain")
  \/ Steps

\* requests submitted with any of the overrides
NextH ==
  \/ \E r \in Requests, e \in {"none", "idle", "aborted"}, o \in Options : Request(r, e, o)
  \/ Steps

Spec == Init /\ [][Next]_vars

\* the RequestQueue alone, driven through its public API
SpecQ == Init /\ [][QNext]_vars

\* the manager with interceptors registered and requests that carry overrides
SpecH == InitH /\ [][NextH]_vars

(* ---- the interceptor registry driven through use() and the pipelines ---- *)

\* use(interceptor)
IUse(x) ==
  /\ Len(interceptors) < MaxInterceptors
  /\ interceptors' = use(interceptors, x)
  /\ ran' = NoRun
  /\ UNCHANGED <<qvars, mvars, probe, xvars>>

\* the disposer returned by use() for an interceptor with this id is called
ICleanup(id) ==
  /\ \E i \in 1..Len(interceptors) : interceptors[i].id = id
  /\ interceptors' = cleanup(interceptors, id)
  /\ ran' = NoRun
  /\ UNCHANGED <<qvars, mvars, probe, xvars>>

\* prepareRequest runs the onRequest hooks
IRequest ==
  /\ ran' = [kind |-> "request", list |-> applyRequestInterceptors(interceptors)]
  /\ UNCHANGED <<qvars, mvars, interceptors, probe, xvars>>

\* sendAndProcess runs the onResponse hooks
IResponse ==
  /\ ran' = [kind |-> "response", list |-> applyResponseInterceptors(interceptors)]
  /\ UNCHANGED <<qvars, mvars, interceptors, probe, xvars>>

\* runOnce's catch runs the onError hooks; the th-th one called throws
IError(th) ==
  /\ th <= Len(interceptors)
  /\ ran' = [kind |-> "error", list |-> applyErrorInterceptors(interceptors, th).ran]
  /\ UNCHANGED <<qvars, mvars, interceptors, probe, xvars>>

INext ==
  \/ \E x \in Interceptors : IUse(x)
  \/ \E id \in 1..MaxInterceptors : ICleanup(id)
  \/ IRequest
  \/ IResponse
  \/ \E th \in 0..MaxInterceptors : IError(th)

SpecI == Init /\ [][INext]_vars

(* ---- shouldRetry applied to one error ---- *)

ErrCodes == {"CANCELED", "TIMEOUT", "NETWORK_ERROR", "HTTP", "OTHER"}
ErrStatuses == {0, 404} \cup RETRY_STATUS_CODES
RetryCounts == 0..(maxRetries + 1)

\* runWithRetries' catch asks shouldRetry(request, error)
RProbe(err, count, custom) ==
  /\ probe' = [called |-> TRUE, err |-> err, count |-> count, custom |-> custom,
               res |-> shouldRetry(err, count, custom)]
  /\ UNCHANGED <<qvars, mvars, interceptors, ran, xvars>>

RNext ==
  \E code \in ErrCodes, st \in ErrStatuses, count \in RetryCounts,
     custom \in {"none", "always", "never"} :
    RProbe([code |-> code, status |-> st], count, custom)

SpecR == Init /\ [][RNext]_vars

\* a step the event loop or the adapter takes on its own: a continuation
\* that is ready to run, an adapter call that settles, a sleep that ends
Progress ==
  \E r \in Requests :
    \/ AfterAcquire(r)
    \/ AcquireFailed(r)
    \/ \E out \in AdapterOutcomes, th \in 0..MaxInterceptors : AdapterSettle(r, out, th)
    \/ Finalize(r)
    \/ Wake(r)

\* the event loop never stops while some such step is possible
FairSpec == Spec /\ WF_vars(Progress)

(* ---------------------------------------------------------------------- *)
(* Properties of the request life cycle (checked under Spec / FairSpec)    *)
(* ---------------------------------------------------------------------- *)

Positions(s, e) == {i \in 1..Len(s) : s[i] = e}
Count(s, e) == Cardinality(Positions(s, e))

OutcomeEvents == {"success", "error", "timeout", "canceled"}

\* the part of the log that belongs to the attempt position i lies in:
\* from after the previous "end" up to and including the next "end"
AttemptOf(s, i) ==
  {j \in 1..Len(s) :
     /\ \A k \in Positions(s, "end") : ~(j <= k /\ k < i)
     /\ \A k \in Positions(s, "end") : ~(i <= k /\ k < j)}

\* C1: for every logical request exactly one request:end is emitted
\* (never more than one, and one once request() has settled), and it comes
\* after any request:start emitted for the request.
C1_ExactlyOneEnd ==
  \A r \in Requests :
    /\ Count(log[r], "end") <= 1
    /\ pc[r] = "done" => Count(log[r], "end") = 1
    /\ \A i \in Positions(log[r], "start"), j \in Positions(log[r], "end") : i < j

\* C2: for every logical request at most one of response:success,
\* response:error, timeout, request:canceled is emitted before its
\* request:end (read per attempt: between two request:end events).
C2_AtMostOneOutcome ==
  \A r \in Requests :
    \A i, j \in 1..Len(log[r]) :
      (/\ i < j
       /\ log[r][i] \in OutcomeEvents
       /\ log[r][j] \in OutcomeEvents)
        => j \notin AttemptOf(log[r], i)

\* C3: request:start is emitted at most once per logical request.
C3_StartAtMostOnce ==
  \A r \in Requests : Count(log[r], "start") <= 1

\* the requests that hold a permit: between the grant and the finally block
InFlight ==
  {r \in Requests :
     \/ pc[r] \in {"sending", "succeeded"}
     \/ pc[r] = "acquiring" /\ acq[r] = "granted"}

C8_ActiveIsInFlight == activeCount = Cardinality(InFlight)

\* request r waits in the queue and its queue signal has not fired
LiveWaiting(r) == acq[r] = "waiting" /\ r \notin QueueSignalAborted

\* C8: every permit acquired by an attempt is released when the attempt
\* ends: active always equals the number of attempts between permit grant
\* and finalization (so it is 0 when nothing is in flight), and a request
\* waiting in the queue is eventually admitted unless its signal fires: its
\* wait always ends, and it ends only by the grant or by the signal.
C8_PermitsReleased ==
  /\ []C8_ActiveIsInFlight
  /\ [][\A r \in Requests :
          (LiveWaiting(r) /\ ~LiveWaiting(r)')
            => (acq'[r] = "granted" \/ (r \in QueueSignalAborted)')]_vars
  /\ \A r \in Requests : []<>~LiveWaiting(r)

\* a request that waited in the queue runs on the permit handed to it by
\* an attempt that ended with an error
C8_Witness ==
  \E a, b \in Requests :
    /\ handedBy[b] = a
    /\ pc[b] = "sending"
    /\ outcome[a] \notin {"", "success"}
    /\ activeCount = 1

\* C9: abort(id) is idempotent: only the first call returns true, and
\* request:canceled is emitted at most once for the request.
C9_AbortIdempotent ==
  \A r \in Requests :
    /\ \A i \in 2..Len(abortRets[r]) : abortRets[r][i] = FALSE
    /\ Count(log[r], "canceled") <= 1

\* C10: a request canceled while it waits in the queue emits
\* request:canceled (once) and then request:end, never request:start; the
\* adapter is not invoked for it, it takes and releases no permit (active is
\* not changed by it), and request() rejects with CANCELED.
C10_CancelBeforeStart ==
  \A r \in Requests :
    cancelQ[r] # 0 =>
      LET s == log[r]
          rest == cancelQ[r]..Len(s)
          canc == {k \in rest : s[k] = "canceled"}
          ends == {k \in rest : s[k] = "end"}
      IN /\ \A k \in rest : s[k] \in {"canceled", "end"}
         /\ Cardinality(canc) <= 1
         /\ Cardinality(ends) <= 1
         /\ \A k \in ends : k = Len(s) /\ canc # {} /\ \A c \in canc : c < k
         /\ pc[r] \in {"acquiring", "done"}
         /\ acq[r] = "rejAbort"
         /\ pc[r] = "done" => (ends # {} /\ outcome[r] = "CANCELED")

\* a request waited behind a running one, was canceled there, and ended
\* canceled while the running one still holds the only permit
C10_Witness ==
  \E r \in Requests :
    /\ cancelQ[r] # 0
    /\ log[r] = <<"canceled", "end">>
    /\ pc[r] = "done"
    /\ activeCount = maxConcurrent


(* ---------------------------------------------------------------------- *)
(* Cancellation, retries, errors and interceptors                          *)
(* ---------------------------------------------------------------------- *)

Max(S) == CHOOSE x \in S : \A y \in S : y <= x

\* the events of the attempt that ended last: from after the previous
\* request:end up to and including the last one (empty if none has ended)
LastSeg(s) ==
  LET E == Positions(s, "end") IN
  IF E = {} THEN <<>>
  ELSE LET last == Max(E)
           prev == Max((E \ {last}) \cup {0})
       IN SubSeq(s, prev + 1, last)

\* the events logged after the last request:end
AfterLastEnd(s) ==
  LET E == Positions(s, "end") IN
  IF E = {} THEN s ELSE SubSeq(s, Max(E) + 1, Len(s))

\* C11: a cancellation that arrives after response:success was emitted is
\* inert: no request:canceled follows the success event of an attempt, and
\* the attempt still ends as a success.
C11_CancelAfterSuccessInert ==
  \A r \in Requests :
    /\ \A i, j \in 1..Len(log[r]) :
         (i < j /\ log[r][i] = "success" /\ j \in AttemptOf(log[r], i))
           => log[r][j] # "canceled"
    /\ (endKind[r] # "" /\ "success" \in Range(LastSeg(log[r])))
         => endKind[r] = "success"

\* C12: an attempt whose abort controller has fired never resolves
\* successfully: no step emits response:success for a request whose
\* controller is aborted.
C12_AbortedNeverSucceeds ==
  [][\A r \in Requests :
       Count(log'[r], "success") > Count(log[r], "success") => ~pending[r].aborted]_vars

\* C13: an attempt that ends with error kind CANCELED is never followed by a
\* retry (no retry:attempt, no further attempt, whatever a custom
\* shouldRetry answers) and runs no onError interceptor.
C13_CanceledIsFinal ==
  \A r \in Requests :
    endKind[r] = "CANCELED" =>
      /\ pc[r] = "done"
      /\ outcome[r] = "CANCELED"
      /\ AfterLastEnd(log[r]) = <<>>
      /\ "onError" \notin Range(LastSeg(log[r]))
      /\ Len(attempts[r]) = retryCount[r]

\* a request submitted with a shouldRetry that always answers true ended
\* CANCELED while onError interceptors were registered
C13_Witness ==
  \E r \in Requests :
    /\ endKind[r] = "CANCELED"
    /\ opts[r] = "retryAlways"
    /\ interceptors # <<>>
    /\ pc[r] = "done"

C15_RetryDecision ==
  (probe.called /\ probe.err.code # "CANCELED") =>
    IF probe.custom # "none"
    THEN probe.res = (probe.custom = "always")
    ELSE probe.res =
           (/\ probe.count < maxRetries
            /\ \/ probe.err.code = "TIMEOUT"
               \/ probe.err.code = "NETWORK_ERROR" /\ probe.err.status = 0
               \/ probe.err.status \in {408, 429, 500, 502, 503, 504})

\* shouldRetry answered true, by the default policy, for an error that is
\* retried only because of its status
C15_Witness ==
  /\ probe.called
  /\ probe.custom = "none"
  /\ probe.err.code = "HTTP"
  /\ probe.err.status = 503
  /\ probe.count = maxRetries - 1
  /\ probe.res

\* C16: the retry sleep is cancellable: a request whose caller signal has
\* fired is not sleeping between attempts (it has reached CANCELED at once).
C16_SleepCancellable ==
  \A r \in Requests : pc[r] = "sleeping" => ext[r] # "aborted"

\* C17: an attempt that ends with error kind TIMEOUT has emitted a timeout
\* event, then response:error, then request:end.
C17_TimeoutHonored ==
  \A r \in Requests :
    endKind[r] = "TIMEOUT" =>
      LET seg == LastSeg(log[r]) IN
      \E i, j, k \in 1..Len(seg) :
        /\ i < j /\ j < k
        /\ seg[i] = "timeout" /\ seg[j] = "error" /\ seg[k] = "end"

\* C18: when the adapter answers with a status, the step that processes
\* the answer emits response:success and no response:error if validateStatus
\* accepts the status; otherwise the attempt ends with error kind
\* HTTP_<status>, emitting response:error then request:end and no
\* response:success.
C18_ValidateStatus ==
  [][\A r \in Requests, out \in {"200", "404", "503"} :
       (\E th \in 0..MaxInterceptors : AdapterSettle(r, out, th)) =>
         LET new == SubSeq(log'[r], Len(log[r]) + 1, Len(log'[r])) IN
         IF validate(opts[r], out)
         THEN "success" \in Range(new) /\ "error" \notin Range(new)
         ELSE /\ endKind'[r] = "HTTP_" \o out
              /\ "success" \notin Range(new)
              /\ \E i, j \in 1..Len(new) : i < j /\ new[i] = "error" /\ new[j] = "end"]_vars

\* C19: when an attempt fails with an error that is not CANCELED, every
\* onError hook runs even if one of them throws, response:error and
\* request:end are emitted, and the caller receives the original error.
C19_OnErrorBestEffort ==
  \A r \in Requests :
    endKind[r] \notin {"", "success", "CANCELED"} =>
      LET seg == LastSeg(log[r]) IN
      /\ Count(seg, "onError") = Len(interceptors)
      /\ "error" \in Range(seg)
      /\ "end" \in Range(seg)
      /\ endKind[r] # "THROWN"

\* C20: the onRequest hooks run in descending priority order, the
\* onResponse hooks in ascending priority order, the exact reverse of the
\* request order.
C20_InterceptorOrder ==
  /\ ran.kind = "request" =>
       \A i, j \in 1..Len(ran.list) :
         i < j => ran.list[i].priority >= ran.list[j].priority
  /\ ran.kind = "response" =>
       /\ \A i, j \in 1..Len(ran.list) :
            i < j => ran.list[i].priority <= ran.list[j].priority
       /\ ran.list = Reverse(applyRequestInterceptors(interceptors))

(* ---------------------------------------------------------------------- *)
(* The cache layer driven by GETs of one URL. The queue has a free permit  *)
(* for every request of this specification (concurrentRequests defaults to *)
(* 10), nothing is aborted and no timeout fires: an attempt goes from      *)
(* queue.acquire to adapter.send to its settlement.                        *)
(* ---------------------------------------------------------------------- *)

\* the manager built with either configuration
InitC ==
  /\ QueueInit
  /\ ManagerInit
  /\ interceptors = <<>>
  /\ ran = NoRun
  /\ probe = NoProbe
  /\ config \in Configs
  /\ CacheInit
  /\ BusInit
  /\ SignalInit
  /\ EmitInit

InFlights == BagToSet(flights)
Add(y) == flights (+) SetToBag({y})
Drop(x) == flights (-) SetToBag({x})
Move(x, y) == Drop(x) (+) SetToBag({y})

\* request({method: GET, url}) up to its first await: prepareRequest,
\* tryServeFromCache (which may call ensureRevalidate) and, on a miss,
\* runWithRetries -> runOnce -> registerPending, queue.acquire
CGet(k) ==
  LET entry == cacheStore[k]
      p == tryServeFromCache(entry, now)
      hit == p.kind \in {"hit", "stale"}
      start == IF hit THEN p.revalidate /\ ensureRevalidate(revalidating, k)
               ELSE TRUE
  IN
  /\ start => BagCardinality(flights) < MaxFlights
  /\ hit /\ config.enableMetrics => hits < MaxHits
  /\ cacheStore' = IF p.kind = "expired" THEN [cacheStore EXCEPT ![k] = NoEntry]
                   ELSE cacheStore
  /\ hits' = IF hit THEN cacheHit(config, hits) ELSE hits
  /\ flights' = IF start THEN Add(NewFlight(k, hit)) ELSE flights
  /\ revalidating' = IF hit /\ start THEN revalidating \cup {k} ELSE revalidating
  /\ served' = [kind |-> p.kind,
                data |-> IF hit THEN createCachedResponse(entry).data ELSE 0,
                fromCache |-> hit /\ createCachedResponse(entry).fromCache,
                started |-> start,
                wanted |-> p.revalidate]
  /\ UNCHANGED <<config, now, qvars, mvars, interceptors, ran, probe, bvars, svars, tvars>>

\* runOnce of request x after the permit was granted: sendAndProcess sets
\* the conditional headers and calls adapter.send
CSend(x) ==
  /\ x.phase = "queued"
  /\ flights' = Move(x, [x EXCEPT
       !.phase = "sending",
       !.inm = applyConditionalHeadersIfNeeded(config, x.reval, cacheStore[x.key], @)])
  /\ UNCHANGED <<config, now, cacheStore, revalidating, served, hits,
                 qvars, mvars, interceptors, ran, probe, bvars, svars, tvars>>

\* the adapter resolves the call made for x with status st, Cache-Control cc
\* and version v of the body: the rest of sendAndProcess and of runOnce
\* (cacheIfNeeded, the finally block with its request:end event) and what
\* runWithRetries does with the result; a request that is no revalidation
\* settles request()
CSettle(x, st, cc, v) ==
  /\ x.phase = "sending"
  /\ st # 200 => cc = NoCC /\ v = 1 /\ faults < MaxFaults
  /\ faults' = IF st # 200 THEN faults + 1 ELSE faults
  /\ LET r == sendAndProcess(config, cacheStore[x.key], Answer(st, cc, v))
         retry == ~r.ok /\ shouldRetry(r.err, x.retryCount, "none")
     IN
     /\ cacheStore' = IF r.ok
                      THEN [cacheStore EXCEPT ![x.key] = cacheIfNeeded(@, r.res, now)]
                      ELSE cacheStore
     /\ flights' = IF retry
                   THEN Move(x, [x EXCEPT !.phase = "sleeping", !.ends = @ + 1,
                                          !.retryCount = @ + 1])
                   ELSE IF x.reval
                        THEN Move(x, [x EXCEPT !.phase = "settled", !.ends = @ + 1])
                   ELSE Drop(x)
     /\ served' = IF retry \/ x.reval THEN served
                  ELSE IF r.ok
                       THEN [kind |-> "network", data |-> r.res.data,
                             fromCache |-> r.res.fromCache, started |-> FALSE,
                             wanted |-> FALSE]
                  ELSE [NoServed EXCEPT !.kind = "failed"]
  /\ UNCHANGED <<config, now, revalidating, hits,
                 activeCount, waitQueue, closed, acq, sig, relCalls, qRelCount,
                 handedBy, calls, mvars, interceptors, ran, probe, bvars, svars, tvars>>

\* the retry sleep of x ends: runOnce again, up to queue.acquire
CWake(x) ==
  /\ x.phase = "sleeping"
  /\ flights' = Move(x, [x EXCEPT !.phase = "queued"])
  /\ UNCHANGED <<config, now, cacheStore, revalidating, served, hits,
                 qvars, mvars, interceptors, ran, probe, bvars, svars, tvars>>

\* the finally callback ensureRevalidate chained to revalidation x
CRevalidated(x) ==
  /\ x.phase = "settled"
  /\ flights' = Drop(x)
  /\ revalidating' = revalidating \ {x.key}
  /\ UNCHANGED <<config, now, cacheStore, served, hits,
                 qvars, mvars, interceptors, ran, probe, bvars, svars, tvars>>

\* time passes
CTick ==
  /\ now < MaxTime
  /\ now' = now + 1
  /\ UNCHANGED <<config, cacheStore, revalidating, flights, served, hits,
                 qvars, mvars, interceptors, ran, probe, bvars, svars, tvars>>

CNext ==
  \/ \E k \in Keys : CGet(k)
  \/ \E x \in InFlights : CSend(x)
  \/ \E x \in InFlights, st \in Statuses, cc \in CacheControls, v \in Versions :
       CSettle(x, st, cc, v)
  \/ \E x \in InFlights : CWake(x)
  \/ \E x \in InFlights : CRevalidated(x)
  \/ CTick

SpecC == InitC /\ [][CNext]_vars

(* ---- destroy() called while requests are under way ---- *)

\* the cleanups use() registered, run one after the other: each removes
\* the first interceptor that has its id
RECURSIVE cleanupAll(_)
cleanupAll(ints) ==
  IF ints = <<>> THEN <<>> ELSE cleanupAll(cleanup(ints, ints[1].id))

\* destroy(): abortAll (markCanceled and emitCanceledOnce on every
\* PendingItem, whose controller aborts and so reaches the queue's onAbort
\* listener of a waiting acquire), clearCache, then the registered
\* cleanups.  Every request that was submitted and has not settled gets the
\* mark "destroy" in its log.
Destroy ==
  /\ faults < MaxFaults
  /\ faults' = faults + 1
  /\ LET a == [r \in Requests |-> abort(pending[r])]
         fired == {r \in Requests :
                     a[r].item.aborted /\ ~pending[r].aborted /\ acq[r] = "waiting"}
     IN
     /\ pending' = [r \in Requests |-> a[r].item]
     /\ log' = [r \in Requests |->
                  log[r] \o a[r].ev
                    \o (IF pc[r] \in {"idle", "done"} THEN <<>> ELSE <<"destroy">>)]
     /\ waitQueue' = SelectSeq(waitQueue, LAMBDA w : w \notin fired)
     /\ acq' = [c \in Calls |-> IF c \in fired THEN "rejAbort" ELSE acq[c]]
     /\ cancelQ' = [r \in Requests |->
                      IF r \in fired THEN 1 + Len(log[r]) ELSE cancelQ[r]]
  /\ cacheStore' = [k \in Keys |-> NoEntry]
  /\ interceptors' = cleanupAll(interceptors)
  /\ UNCHANGED <<activeCount, closed, sig, relCalls, qRelCount, handedBy, calls>>
  /\ UNCHANGED <<pc, retryCount, ext, tmo, outcome, abortRets, opts, attempts, endKind, metrics>>
  /\ UNCHANGED <<ran, probe, config, now, revalidating, flights, served, hits, bvars, svars, tvars>>

NextD ==
  \/ Next
  \/ Destroy

\* the manager with interceptors registered, requests without overrides
\* and destroy()
SpecD == InitH /\ [][NextD]_vars

(***************************************************************************)
(* TypedEventBus: registrations and emissions.                             *)
(***************************************************************************)
RestInit ==
  /\ QueueInit
  /\ ManagerInit
  /\ interceptors = <<>>
  /\ ran = NoRun
  /\ probe = NoProbe
  /\ config = DefaultConfig
  /\ CacheInit
  /\ SignalInit
  /\ EmitInit

\* SpecB: one exact handler per event, one any-handler and one '*' pattern
\* handler are subscribed; no middleware is registered yet.
InitB ==
  /\ RestInit
  /\ middlewares = <<>>
  /\ patternMiddlewares = <<>>
  /\ exact = [e \in Events |-> <<1>>]
  /\ anyHandlers = <<1>>
  /\ patterns = <<PatternEntry(1, <<"*">>, 0, FALSE)>>
  /\ subs = 1
  /\ throwers = {}
  /\ emitted = NoEmission

\* SpecP: two exact handlers per event, two any-handlers, one global and
\* one pattern middleware that pass on; no pattern is subscribed yet.
InitP ==
  /\ RestInit
  /\ middlewares = <<"pass">>
  /\ patternMiddlewares = <<"pass">>
  /\ exact = [e \in Events |-> <<1, 2>>]
  /\ anyHandlers = <<1, 2>>
  /\ patterns = <<>>
  /\ subs = 0
  /\ throwers = {}
  /\ emitted = NoEmission

\* use(mw)
BUse(kind) ==
  /\ Len(middlewares) + Len(patternMiddlewares) < MaxMw
  /\ middlewares' = Append(middlewares, kind)
  /\ emitted' = NoEmission
  /\ UNCHANGED <<patternMiddlewares, exact, anyHandlers, patterns, subs, throwers>>
  /\ UNCHANGED <<qvars, mvars, interceptors, ran, probe, cvars, svars, tvars>>

\* usePattern(mw)
BUsePattern(kind) ==
  /\ Len(middlewares) + Len(patternMiddlewares) < MaxMw
  /\ patternMiddlewares' = Append(patternMiddlewares, kind)
  /\ emitted' = NoEmission
  /\ UNCHANGED <<middlewares, exact, anyHandlers, patterns, subs, throwers>>
  /\ UNCHANGED <<qvars, mvars, interceptors, ran, probe, cvars, svars, tvars>>

\* onPattern(pattern, handler, {priority, once}) (oncePattern with once)
\* parsePattern throws on a pattern that is neither '*' nor 'prefix:*',
\* and nothing is subscribed then.
BOnPattern(pattern, priority, once) ==
  /\ subs < MaxSubs
  /\ parsePattern(pattern).kind # "invalid"
  /\ subs' = subs + 1
  /\ patterns' = insertPatternSorted(patterns,
                   PatternEntry(subs + 1, pattern, priority, once))
  /\ emitted' = NoEmission
  /\ UNCHANGED <<middlewares, patternMiddlewares, exact, anyHandlers, throwers>>
  /\ UNCHANGED <<qvars, mvars, interceptors, ran, probe, cvars, svars, tvars>>

\* The disposer onPattern returned for subscription id, while its entry is
\* still in patterns.
BDisposePattern(id) ==
  /\ \E k \in 1..Len(patterns) : patterns[k].id = id
  /\ patterns' = removePattern(patterns, id)
  /\ emitted' = NoEmission
  /\ UNCHANGED <<middlewares, patternMiddlewares, exact, anyHandlers, subs, throwers>>
  /\ UNCHANGED <<qvars, mvars, interceptors, ran, probe, cvars, svars, tvars>>

\* await emitAsync(event, payload)
BEmit(event) ==
  LET st == emitAsync(event)
  IN  /\ emitted' = [event |-> event, trace |-> st.trace,
                     blocked |-> st.blocked, failed |-> st.failed,
                     done |-> TRUE]
      /\ patterns' = st.patterns
      /\ UNCHANGED <<middlewares, patternMiddlewares, exact, anyHandlers, subs, throwers>>
      /\ UNCHANGED <<qvars, mvars, interceptors, ran, probe, cvars, svars, tvars>>

NextB ==
  \/ \E kind \in MwKinds : BUse(kind)
  \/ \E kind \in MwKinds : BUsePattern(kind)
  \/ \E event \in Events : BEmit(event)

SpecB == InitB /\ [][NextB]_vars

NextP ==
  \/ \E pattern \in Patterns, priority \in PatternPriorities, once \in BOOLEAN :
       BOnPattern(pattern, priority, once)
  \/ \E id \in 1..MaxSubs : BDisposePattern(id)
  \/ \E event \in Events : BEmit(event)

SpecP == InitP /\ [][NextP]_vars

(***************************************************************************)
(* TypedEventBus: handlers that throw (SpecT), and the patterns and events *)
(* of a bounded alphabet (SpecM).                                          *)
(***************************************************************************)
Handlers == {"exact", "any", "pattern"} \X {1, 2}

\* SpecT: two handlers of each kind are subscribed, behind one global and
\* one pattern middleware that pass on; any of the handlers may throw.
InitT ==
  /\ RestInit
  /\ middlewares = <<"pass">>
  /\ patternMiddlewares = <<"pass">>
  /\ exact = [e \in Events |-> <<1, 2>>]
  /\ anyHandlers = <<1, 2>>
  /\ patterns = <<PatternEntry(1, <<"*">>, 0, FALSE),
                  PatternEntry(2, <<"*">>, 0, FALSE)>>
  /\ subs = 2
  /\ throwers \in SUBSET Handlers
  /\ emitted = NoEmission

NextT == \E event \in Events : BEmit(event)

SpecT == InitT /\ [][NextT]_vars

\* SpecM: one subscription, to any pattern that onPattern accepts.
InitM ==
  /\ RestInit
  /\ middlewares = <<>>
  /\ patternMiddlewares = <<>>
  /\ exact = [e \in Events |-> <<>>]
  /\ anyHandlers = <<>>
  /\ \E pattern \in Strings(MaxChars) :
       /\ parsePattern(pattern).kind # "invalid"
       /\ patterns = <<PatternEntry(1, pattern, 0, FALSE)>>
  /\ subs = 1
  /\ throwers = {}
  /\ emitted = NoEmission

NextM == \E event \in Strings(MaxChars) : BEmit(event)

SpecM == InitM /\ [][NextM]_vars

(***************************************************************************)
(* SpecS: the RequestQueue with a listener on its stats stream.            *)
(***************************************************************************)
\* onStatsChange(fn): the listener is added and called with getStats()
SOnStatsChange ==
  /\ ~listening
  /\ listening' = TRUE
  /\ lastStats' = getStats(activeCount, waitQueue, closed)
  /\ UNCHANGED <<qvars, mvars, yvars>>

NextS ==
  \/ QNext
  \/ SOnStatsChange

SpecS == Init /\ [][NextS]_vars

(***************************************************************************)
(* SpecG: one request through runOnce under either way of composing        *)
(* signals.  The adapter honours the signal it is given: it completes a    *)
(* request only while that signal is not aborted.                          *)
(***************************************************************************)
InitG ==
  /\ QueueInit
  /\ ManagerInit
  /\ interceptors = <<>>
  /\ ran = NoRun
  /\ probe = NoProbe
  /\ config = DefaultConfig
  /\ CacheInit
  /\ BusInit
  /\ EmitInit
  /\ anyFn \in BOOLEAN
  /\ attempt = NoAttempt

Others == <<qvars, mvars, interceptors, ran, probe, cvars, bvars, svars, evars>>

queueSignal(a) == combined(anyFn, a.queueAt, <<a.ext, a.ctrl>>)
sendSignal(a) == combined(anyFn, a.sendAt, <<a.ctrl, a.tmo>>)

\* request() with the caller's signal e, while the permits of the queue
\* are free or all taken (busy): registerPending (an aborted e aborts the
\* controller), the queue signal is composed of e and controller.signal,
\* and queue.acquire(queueSignal) is granted, queued or rejected; a
\* rejection ends in runOnce's catch.
GRequest(e, busy) ==
  LET ctrl == IF registerPending(e).aborted THEN "aborted" ELSE "idle"
      at == <<e, ctrl>>
      res == acquire(IF busy THEN maxConcurrent ELSE 0, <<>>, FALSE, 1,
                     combined(anyFn, at, at)).res
  IN  /\ attempt.pc = "idle"
      /\ attempt' = [attempt EXCEPT
           !.ext = e, !.ctrl = ctrl, !.queueAt = at, !.submitted = e,
           !.pc = CASE res = "granted" -> "acquired"
                    [] res = "waiting" -> "waiting"
                    [] OTHER -> "done",
           !.outcome = IF res \in {"granted", "waiting"} THEN ""
                       ELSE classify("NETWORK_ERROR", ctrl = "aborted",
                                     e = "aborted")]
      /\ UNCHANGED <<anyFn, Others>>

\* The attempt a after one of its signals aborted: if it waits in the
\* queue and its queue signal is aborted now, onAbort rejects its acquire.
Aborted(a) ==
  IF a.pc = "waiting" /\ queueSignal(a)
    THEN [a EXCEPT !.pc = "done",
                   !.outcome = classify("NETWORK_ERROR", a.ctrl = "aborted",
                                        a.ext = "aborted")]
    ELSE a

\* A permit is released and handed to the waiting request.
GGrant ==
  /\ attempt.pc = "waiting"
  /\ attempt' = [attempt EXCEPT !.pc = "acquired"]
  /\ UNCHANGED <<anyFn, Others>>

\* sendAndProcess up to adapter.send: the adapter's signal is composed of
\* controller.signal and a fresh timeout signal.
GSend ==
  /\ attempt.pc = "acquired"
  /\ attempt' = [attempt EXCEPT !.sendAt = <<attempt.ctrl, "idle">>,
                                !.pc = "sending"]
  /\ UNCHANGED <<anyFn, Others>>

\* The caller's signal aborts; externalAbort aborts the controller.
GExternalAbort ==
  /\ attempt.pc \in {"waiting", "acquired", "sending"}
  /\ attempt.ext = "idle"
  /\ attempt' = Aborted([attempt EXCEPT !.ext = "aborted", !.ctrl = "aborted"])
  /\ UNCHANGED <<anyFn, Others>>

\* abort(requestId): markCanceled aborts the controller.
GAbort ==
  /\ attempt.pc \in {"waiting", "acquired", "sending"}
  /\ attempt.ctrl = "idle"
  /\ attempt' = Aborted([attempt EXCEPT !.ctrl = "aborted"])
  /\ UNCHANGED <<anyFn, Others>>

\* The timeout signal fires.
GTimeout ==
  /\ attempt.pc = "sending"
  /\ attempt.tmo = "idle"
  /\ attempt' = [attempt EXCEPT !.tmo = "aborted"]
  /\ UNCHANGED <<anyFn, Others>>

\* adapter.send settles: with a response (out "200" or "503") while its
\* signal is not aborted, or with an error; then the rest of sendAndProcess
\* and of runOnce.
GSettle(out) ==
  /\ attempt.pc = "sending"
  /\ sendSignal(attempt) => out = "throw"
  /\ attempt' = [attempt EXCEPT
       !.pc = "done",
       !.outcome =
         IF out = "200" THEN "success"
         ELSE classify(sendError(out, attempt.tmo = "aborted",
                                 attempt.ctrl = "aborted"),
                       attempt.ctrl = "aborted", attempt.ext = "aborted")]
  /\ UNCHANGED <<anyFn, Others>>

NextG ==
  \/ \E e \in SignalStates, busy \in BOOLEAN : GRequest(e, busy)
  \/ GGrant
  \/ GSend
  \/ GExternalAbort
  \/ GAbort
  \/ GTimeout
  \/ \E out \in {"200", "503", "throw"} : GSettle(out)

SpecG == InitG /\ [][NextG]_vars
(***************************************************************************)
(* SpecO: emissions that overlap.  No global middleware and no exact or    *)
(* any-handler is registered; the one pattern middleware either passes on  *)
(* at once or defers.  Patterns are subscribed with priority 0.            *)
(***************************************************************************)
InitO ==
  /\ RestInit
  /\ middlewares = <<>>
  /\ patternMiddlewares \in {<<"pass">>, <<"defer">>}
  /\ exact = [e \in Events |-> <<>>]
  /\ anyHandlers = <<>>
  /\ patterns = <<>>
  /\ subs = 0
  /\ throwers = {}
  /\ emitted = NoEmission

OUnchanged ==
  UNCHANGED <<middlewares, patternMiddlewares, exact, anyHandlers, subs,
              throwers, emitted, qvars, mvars, interceptors, ran, probe,
              cvars, svars, gvars>>

\* emit(event) or emitAsync(event), up to the first point where it is
\* suspended: matched is computed from this.patterns, then the pattern
\* middleware runs; one that passes on at once reaches the loop over
\* matched within the same call.
OEmit(e, event) ==
  LET matched == matchedOf(patterns, event)
      h == handleMatched(patterns, matched)
  IN  /\ running[e].phase = "idle"
      /\ \A d \in Emissions : d < e => running[d].phase # "idle"
      /\ IF patternMiddlewares = <<"defer">>
           THEN /\ running' = [running EXCEPT ![e] =
                      [phase |-> "suspended", event |-> event,
                       matched |-> matched]]
                /\ UNCHANGED <<patterns, invocations>>
           ELSE /\ running' = [running EXCEPT ![e] =
                      [phase |-> "done", event |-> event, matched |-> matched]]
                /\ patterns' = h.patterns
                /\ invocations' = invocations \o h.called
      /\ OUnchanged

\* The deferring middleware of emission e goes on to await next(): the
\* loop over the matched entries computed when the emission began.
OResume(e) ==
  LET h == handleMatched(patterns, running[e].matched)
  IN  /\ running[e].phase = "suspended"
      /\ running' = [running EXCEPT ![e].phase = "done"]
      /\ patterns' = h.patterns
      /\ invocations' = invocations \o h.called
      /\ OUnchanged

NextO ==
  \/ \E pattern \in Patterns, once \in BOOLEAN : BOnPattern(pattern, 0, once)
  \/ \E e \in Emissions, event \in Events : OEmit(e, event)
  \/ \E e \in Emissions : OResume(e)

SpecO == InitO /\ [][NextO]_vars

(***************************************************************************)
(* SpecK: the manager of Spec with metrics enabled.                        *)
(***************************************************************************)
InitK ==
  /\ QueueInit
  /\ ManagerInit
  /\ interceptors = <<>>
  /\ ran = NoRun
  /\ probe = NoProbe
  /\ config = [DefaultConfig EXCEPT !.enableMetrics = TRUE]
  /\ CacheInit
  /\ BusInit
  /\ SignalInit
  /\ EmitInit

SpecK == InitK /\ [][Next]_vars

(* ====================================================================== *)
(* Cache, revalidation and teardown                                         *)
(* ====================================================================== *)

\* the step in which a GET that is no revalidation gets a 200 the manager
\* caches writes the entry with the body request() resolves with, expiring
\* one TTL later; the step in which a GET probes such an entry before it
\* expires returns that body with fromCache set, starts no request (so the
\* adapter is not invoked) and counts one cache hit if counted holds
RoundTrip(counted) ==
  /\ \A x \in InFlights, cc \in CacheControls, v \in Versions :
       (CSettle(x, 200, cc, v) /\ ~x.reval /\ shouldCacheResponse(Answer(200, cc, v))
          /\ getTTL(Answer(200, cc, v)) > 0)
       => /\ served'.kind = "network"
          /\ cacheStore'[x.key].present
          /\ cacheStore'[x.key].data = served'.data
          /\ cacheStore'[x.key].expires = now + getTTL(Answer(200, cc, v))
  /\ \A k \in Keys :
       (CGet(k) /\ cacheStore[k].present /\ now < cacheStore[k].expires)
       => /\ served'.kind = "hit"
          /\ served'.data = cacheStore[k].data
          /\ served'.fromCache
          /\ flights' = flights
          /\ hits' = hits + (IF counted THEN 1 ELSE 0)

\* C21 (as amended): a successful cacheable GET followed within its TTL by
\* the same GET returns the same data with fromCache = true without invoking
\* the adapter again; the second call increments cache.hit by exactly one
\* when metrics are enabled and leaves it unchanged under the default
\* configuration, in which enableMetrics is false
C21_CacheRoundTrip == [][RoundTrip(config.enableMetrics)]_vars

\* C21 as stated: the second call increments cache.hit by one under the
\* default configuration too
C21_AsStated == [][RoundTrip(TRUE)]_vars

\* a GET was served from the cache inside the TTL, and the hit was counted
C21_Witness ==
  \E k \in Keys :
    /\ config.enableMetrics
    /\ served.kind = "hit" /\ served.fromCache
    /\ cacheStore[k].present /\ served.data = cacheStore[k].data
    /\ now < cacheStore[k].expires
    /\ hits = 1
    /\ flights = EmptyBag

\* C22: a probe at time now of an entry with expires and
\* staleWhileRevalidate serves it as fresh only when now < expires, serves
\* it as stale (cache:stale) whenever expires <= now <= expires + swr, and
\* removes it and reports a miss only when now > expires + swr
C22_FreshnessWindows ==
  [][\A k \in Keys :
       (CGet(k) /\ cacheStore[k].present)
       => LET e == cacheStore[k]
              hard == e.expires + e.staleWhileRevalidate
          IN
          /\ served'.kind = "hit" => now < e.expires
          /\ (e.expires <= now /\ now <= hard) => served'.kind = "stale"
          /\ served'.kind = "expired" => (now > hard /\ ~cacheStore'[k].present)
          /\ now > hard => served'.kind = "expired"]_vars

\* the Cache-Control header of the scenario: max-age=0 and a
\* stale-while-revalidate window (of two ticks)
MaxAge0Swr == [maxAge |-> 0, swr |-> 2]

\* C23: after a GET answered 200 with an ETag and Cache-Control: max-age=0,
\* stale-while-revalidate, a GET of the same URL inside the window is
\* answered with the cached body as stale and starts a revalidation; a
\* revalidation sent while the entry has an ETag carries it as
\* If-None-Match; when a revalidation is answered 304 the timestamp of the
\* entry becomes the time of the answer
C23_ConditionalRevalidation ==
  [][/\ \A x \in InFlights, v \in Versions :
          (CSettle(x, 200, MaxAge0Swr, v) /\ ~x.reval)
          => \A t \in now..(now + MaxAge0Swr.swr - 1) :
               /\ tryServeFromCache(cacheStore'[x.key], t) =
                    [kind |-> "stale", revalidate |-> TRUE]
               /\ createCachedResponse(cacheStore'[x.key]).data = v
               /\ cacheStore'[x.key].etag = v
     /\ \A x \in InFlights :
          (CSend(x) /\ x.reval /\ cacheStore[x.key].present)
          => \E y \in BagToSet(flights') :
               y.phase = "sending" /\ y.reval /\ y.inm = cacheStore[x.key].etag
     /\ \A x \in InFlights :
          (CSettle(x, 304, NoCC, 1) /\ x.reval /\ cacheStore[x.key].present)
          => cacheStore'[x.key].timestamp = now]_vars

\* C24: no request:end event is emitted for a request with
\* metadata.isRevalidate, whatever its outcome
C24_NoEndForRevalidation == \A x \in InFlights : x.reval => x.ends = 0

\* the number of revalidation requests for key k whose phase is in ps
Revalidations(k, ps) ==
  LET S == {x \in InFlights : x.reval /\ x.key = k /\ x.phase \in ps}
  IN BagCardinality([x \in S |-> CopiesIn(x, flights)])

Running == {"queued", "sending", "sleeping"}

\* C25: at any time at most one revalidation request is in flight for a
\* key, however many stale reads of it occur; the key is held in
\* revalidating exactly while a revalidation of it is in flight or its
\* finally callback has yet to run, and a stale read that wants a
\* revalidation while the key is free starts one
C25_RevalidationDeduplicated ==
  /\ [](\A k \in Keys :
          /\ Revalidations(k, Running) <= 1
          /\ Revalidations(k, Running \cup {"settled"}) <= 1
          /\ k \in revalidating <=> Revalidations(k, Running \cup {"settled"}) = 1)
  /\ [][\A k \in Keys :
          (CGet(k) /\ served'.kind = "stale" /\ served'.wanted)
          => (served'.started <=> Revalidations(k, Running \cup {"settled"}) = 0)]_vars

\* a stale read found the revalidation of its key in flight and started none
C25_Witness ==
  \E k \in Keys :
    /\ served.kind = "stale" /\ served.wanted /\ ~served.started
    /\ Revalidations(k, Running) = 1

\* C26: destroy() cancels every request that was submitted and has not
\* reached a terminal outcome, whatever its phase: after destroy() it does
\* not invoke the adapter again and it ends CANCELED; the cache is empty and
\* the registered cleanups have run
C26_DestroyCancelsAll ==
  \A r \in Requests :
    \A i \in Positions(log[r], "destroy") :
      /\ \A j \in Positions(log[r], "send") : j < i
      /\ pc[r] = "done" => outcome[r] = "CANCELED"
      /\ \A k \in Keys : ~cacheStore[k].present
      /\ interceptors = <<>>

(***************************************************************************)
(* The event bus.                                                          *)
(***************************************************************************)
\* The positions of a mark in a trace
At(t, m) == Positions(t, m)
Pos(t, m) == CHOOSE p \in At(t, m) : TRUE
Once(t, m) == Cardinality(At(t, m)) = 1

AllPass(chain) == \A k \in 1..Len(chain) : chain[k] = "pass"

\* C27: middlewares that await next() wrap the dispatch in registration
\* order.  In an emission through global middlewares m1 .. mN, each mi runs
\* once; for i < j, mi's "before" precedes mj's and mj's "after" precedes
\* mi's; every exact handler of the event is called once, after every
\* "before" and before every "after"; and the promise of emitAsync resolves
\* last, after m1's "after".
C27_OnionOrder ==
  (emitted.done /\ AllPass(middlewares) /\ AllPass(patternMiddlewares)) =>
    LET t == emitted.trace
        b(k) == Mark("before", "g", k)
        a(k) == Mark("after", "g", k)
        h(x) == Mark("call", "exact", x)
        N == Len(middlewares)
        hs == exact[emitted.event]
    IN  /\ \A k \in 1..N : Once(t, b(k)) /\ Once(t, a(k))
        /\ \A x \in 1..Len(hs) : Once(t, h(hs[x]))
        /\ \A k, l \in 1..N :
             k < l => /\ Pos(t, b(k)) < Pos(t, b(l))
                      /\ Pos(t, a(l)) < Pos(t, a(k))
        /\ \A k \in 1..N, x \in 1..Len(hs) :
             /\ Pos(t, b(k)) < Pos(t, h(hs[x]))
             /\ Pos(t, h(hs[x])) < Pos(t, a(k))
        /\ ~emitted.failed
        /\ t[Len(t)] = Mark("resolve", "g", 0)
        /\ \A k \in 1..N : Pos(t, a(k)) < Len(t)

\* m1 and m2 registered, one emission: m1:before, m2:before, the handlers,
\* m2:after, m1:after, and then the promise resolves.
C27_Witness ==
  /\ emitted.done
  /\ middlewares = <<"pass", "pass">>
  /\ emitted.trace = <<Mark("before", "g", 1), Mark("before", "g", 2),
                       Mark("call", "exact", 1), Mark("call", "any", 1),
                       Mark("call", "pattern", 1),
                       Mark("after", "g", 2), Mark("after", "g", 1),
                       Mark("resolve", "g", 0)>>

\* The middlewares of a chain that ran in the last emission and call next()
\* twice
RanTwice(chain, list) ==
  {k \in 1..Len(list) :
     list[k] = "twice" /\ At(emitted.trace, Mark("before", chain, k)) # {}}

\* C28: an emission in which a middleware, global or pattern, called next()
\* a second time fails (the promise of emitAsync rejects), and nothing in it
\* ran twice.
C28_SecondNextFails ==
  (emitted.done /\ (RanTwice("g", middlewares) # {}
                    \/ RanTwice("p", patternMiddlewares) # {})) =>
    /\ emitted.failed
    /\ \A p, q \in 1..Len(emitted.trace) :
         emitted.trace[p] = emitted.trace[q] => p = q

\* C29: in the trace of an emission nothing starts after ctx.blocked was
\* set: no middleware's "before" and no handler's "call" follows a "block".
C29_BlockedStopsEmission ==
  emitted.done =>
    \A p, q \in 1..Len(emitted.trace) :
      (p < q /\ emitted.trace[p].tag = "block") =>
        emitted.trace[q].tag \notin {"before", "call"}

\* The place of a mark in the order of one emission
Rank(m) ==
  CASE m.tag = "before" /\ m.chain = "g" -> 0
    [] m.tag = "call" /\ m.chain = "exact" -> 1
    [] m.tag = "call" /\ m.chain = "any" -> 2
    [] m.tag = "before" /\ m.chain = "p" -> 3
    [] m.tag = "call" /\ m.chain = "pattern" -> 4
    [] m.tag = "after" /\ m.chain = "p" -> 5
    [] m.tag = "after" /\ m.chain = "g" -> 6
    [] OTHER -> 7

CallsOf(t, chain) ==
  SelectSeq(t, LAMBDA m : m.tag = "call" /\ m.chain = chain)

\* The trace t of an emission of event over the subscriptions subscribed
\* keeps the handler order: exact, any, pattern middlewares, then the
\* matching pattern handlers by descending priority and, at equal priority,
\* in subscription order.
HandlerOrder(subscribed, event, t) ==
  LET matching == {k \in 1..Len(subscribed) :
                     matchPattern(subscribed[k], event)}
      entry(id) == CHOOSE e \in {subscribed[k] : k \in matching} : e.id = id
      called == CallsOf(t, "pattern")
  IN  /\ \A p, q \in 1..Len(t) : p < q => Rank(t[p]) <= Rank(t[q])
      /\ CallsOf(t, "exact") =
           [x \in 1..Len(exact[event]) |-> Mark("call", "exact", exact[event][x])]
      /\ CallsOf(t, "any") =
           [x \in 1..Len(anyHandlers) |-> Mark("call", "any", anyHandlers[x])]
      /\ \A k \in 1..Len(patternMiddlewares) :
           Once(t, Mark("before", "p", k))
      /\ Len(called) = Cardinality(matching)
      /\ {called[x].id : x \in 1..Len(called)} = {subscribed[k].id : k \in matching}
      /\ \A x, y \in 1..Len(called) :
           x < y =>
             \/ entry(called[x].id).priority > entry(called[y].id).priority
             \/ /\ entry(called[x].id).priority = entry(called[y].id).priority
                /\ called[x].id < called[y].id

\* C30: whatever onPattern subscriptions and disposals came before, an
\* emission calls the exact handlers, then the any-handlers, then the
\* pattern middlewares, then the matching pattern handlers in descending
\* priority, those of equal priority in subscription order.
C30_HandlerOrder ==
  [][\A event \in Events :
       BEmit(event) => HandlerOrder(patterns, event, emitted'.trace)]_vars

\* Subscriptions 1 and 2 of priority 0 and a later subscription 3 of
\* priority 1 all match: 3 is called first, then 1, then 2.
C30_Witness ==
  /\ emitted.done
  /\ CallsOf(emitted.trace, "pattern") =
       <<Mark("call", "pattern", 3), Mark("call", "pattern", 1),
         Mark("call", "pattern", 2)>>

\* C31: a handler that throws, of whatever kind, takes nothing away from
\* the emission: every handler subscribed to the event is still called,
\* every middleware still comes back from next(), and the promise of
\* emitAsync resolves.
C31_HandlerIsolation ==
  emitted.done =>
    LET t == emitted.trace
    IN  /\ \A x \in 1..Len(exact[emitted.event]) :
             Once(t, Mark("call", "exact", exact[emitted.event][x]))
        /\ \A x \in 1..Len(anyHandlers) :
             Once(t, Mark("call", "any", anyHandlers[x]))
        /\ \A k \in 1..Len(patterns) :
             matchPattern(patterns[k], emitted.event) =>
               Once(t, Mark("call", "pattern", patterns[k].id))
        /\ \A k \in 1..Len(middlewares) : Once(t, Mark("after", "g", k))
        /\ \A k \in 1..Len(patternMiddlewares) : Once(t, Mark("after", "p", k))
        /\ ~emitted.failed
        /\ t[Len(t)] = Mark("resolve", "g", 0)

WaiterAborted(c, code) ==
  (QOnAbort(c) /\ acq[c] = "waiting") =>
    /\ waitQueue' = SelectSeq(waitQueue, LAMBDA x : x # c)
    /\ Len(waitQueue') = Len(waitQueue) - 1
    /\ activeCount' = activeCount
    /\ acq'[c] \in {"rejAbort", "rejClosed", "rejCleared"}
    /\ rejection(acq'[c]).code = code

\* C33: when the signal of a queued waiter fires, the waiter leaves the
\* wait queue (pending is one less, active is unchanged, the other waiters
\* keep their order) and its acquire is rejected with an error whose code
\* is ABORTED_WHILE_WAITING.
C33_WaiterAbort ==
  [][\A c \in Calls : WaiterAborted(c, "ABORTED_WHILE_WAITING")]_vars

\* C34: the last snapshot a listener attached with onStatsChange received
\* is getStats(): it got one on attach and one after every operation that
\* changed active, pending or isClosed.
C34_StatsStream ==
  listening => lastStats = getStats(activeCount, waitQueue, closed)

\* The requests with an attempt between registerPending and the end of
\* runOnce's finally block
InAttempt == {r \in Requests : pc[r] \in {"acquiring", "sending", "succeeded"}}

\* C35: the pending table holds a record for a request exactly while an
\* attempt of it is between registration and finalization: none before the
\* request is submitted, none while it sleeps before a retry, none once it
\* is done, so the table is empty whenever no attempt is running.
C35_PendingTable ==
  \A r \in Requests : pending[r].present <=> r \in InAttempt

\* One request sleeps before its retry and has no record; another is in an
\* attempt and has one.
C35_Witness ==
  \E r, q \in Requests :
    /\ pc[r] = "sleeping" /\ ~pending[r].present
    /\ pc[q] = "sending" /\ pending[q].present

\* C36: under either strategy a composed signal is aborted whenever one of
\* its sources is, a source that was aborted before the composition
\* included; and a request submitted with a caller signal that is already
\* aborted is never completed by the adapter: it does not succeed.
C36_SignalComposition ==
  /\ attempt.queueAt # <<>> =>
       ((attempt.ext = "aborted" \/ attempt.ctrl = "aborted")
          => queueSignal(attempt))
  /\ attempt.sendAt # <<>> =>
       ((attempt.ctrl = "aborted" \/ attempt.tmo = "aborted")
          => sendSignal(attempt))
  /\ attempt.submitted = "aborted" =>
       (attempt.pc \in {"idle", "done"} /\ attempt.outcome # "success")

(* ---------------------------------------------------------------------- *)
\* C37: once request:canceled has been emitted for a request, request:start
\* is not emitted for it afterwards and the adapter is not invoked for it
\* afterwards, whenever the cancel lands: in the log of every request no
\* "start" and no "send" follows a "canceled".
C37_NoStartAfterCancel ==
  \A r \in Requests :
    \A i, j \in 1..Len(log[r]) :
      (log[r][i] = "canceled" /\ i < j) => log[r][j] \notin {"start", "send"}

(* ---------------------------------------------------------------------- *)
\* C38: the handler of a pattern subscription registered with once is
\* invoked at most once, whatever emissions overlap: no entry subscribed
\* with once occurs twice among the entries whose handler was called.
C38_OnceAtMostOnce ==
  \A i, j \in 1..Len(invocations) :
    (invocations[i].once /\ invocations[i].id = invocations[j].id) => i = j

(* ---------------------------------------------------------------------- *)
\* the list without its k-th element
RemoveAt(s, k) == SubSeq(s, 1, k - 1) \o SubSeq(s, k + 1, Len(s))

\* C39: the disposer use() returned removes exactly the interceptor that
\* call registered and leaves every other one in place, also among
\* interceptors that share an id: whichever registered interceptor a
\* disposer that is called belongs to, the step removes that one.
C39_DisposerRemovesOwn ==
  [][\A id \in 1..MaxInterceptors : \A k \in 1..Len(interceptors) :
       (interceptors[k].id = id /\ ICleanup(id))
         => interceptors' = RemoveAt(interceptors, k)]_vars

(* ---------------------------------------------------------------------- *)
\* the logical requests that have started and have not reached an outcome
Started == {r \in Requests : pc[r] \notin {"idle", "done"}}

\* C40: with metrics enabled, requests.active is the number of logical
\* requests in flight (so 0 when none is), whatever their outcome and
\* however many retries they make, and requests.success is the number of
\* requests that succeeded.
C40_ActiveGauge ==
  config.enableMetrics =>
    /\ metrics.active = Cardinality(Started)
    /\ metrics.success = Cardinality({r \in Requests : outcome[r] = "success"})

====
